---- MODULE Spec2Model ----
(***************************************************************************)
(* Model of the catalog reconciliation engine of neopilot-ai/models:       *)
(* the Vercel, Venice and Friendli generators (mergeModel, formatToml,     *)
(* detectChanges and the sync loop of main), the Jiekou generator, and the *)
(* Cloudflare AI Gateway shell scripts (should_include_model and step 03). *)
(*                                                                         *)
(* Conventions.                                                            *)
(*  - A JavaScript/bash string is a sequence of atoms; an atom is one      *)
(*    character, or a multi-character token no operation of the model      *)
(*    looks inside (".toml", "@cf", "whisper", ...).                       *)
(*  - An optional value (undefined / key absent in TOML) is a sequence of  *)
(*    length 0 or 1: None is <<>>, Some(v) is <<v>>.                       *)
(*  - A calendar date YYYY-MM-DD is the number of days since the epoch.    *)
(*  - A price is an integer number of PriceUnit-ths of a dollar.           *)
(***************************************************************************)
EXTENDS Integers, Sequences, FiniteSets, TLC

(***************************************************************************)
(* Bounds of the model.                                                    *)
(***************************************************************************)
MaxIdLen == 4
MaxNameLen == 3
\* longest source payload and number of successive runs of a sync driver
MaxPayload == 2
MaxRuns == 2
\* atoms of a Cloudflare model id
MaxFilterLen == 5
\* atoms of a model id given to a filter together with its lower-case form
MaxCaseLen == 5

(***************************************************************************)
(* Optional values and strings.                                            *)
(***************************************************************************)
None == <<>>
Some(v) == <<v>>
IsSome(o) == o # <<>>
Get(o) == o[1]
\* JavaScript's a ?? b on optionals
CoalesceMut(a, b) == IF IsSome(b) THEN b ELSE a
Coalesce(a, b) == IF IsSome(a) THEN a ELSE b

\* String.prototype.toLowerCase, atom by atom (the upper-case letters in use)
LowerAtom(c) ==
  CASE c = "C" -> "c"
    [] c = "G" -> "g"
    [] c = "O" -> "o"
    [] c = "P" -> "p"
    [] c = "T" -> "t"
    [] c = "W" -> "w"
    [] c = "Y" -> "y"
    [] c = "OpenAI" -> "openai"
    [] c = "Whisper" -> "whisper"
    [] c = "Llama" -> "llama"
    [] c = "Qwen" -> "qwen"
    [] c = "Instruct" -> "instruct"
    [] c = "Sao10K" -> "sao10k"
    [] c = "nova-2-Lite" -> "nova-2-lite"
    [] c = "GPT-5" -> "gpt-5"
    [] OTHER -> c
toLowerCase(s) == [i \in 1..Len(s) |-> LowerAtom(s[i])]

\* s.startsWith(p)
startsWith(s, p) == Len(p) <= Len(s) /\ SubSeq(s, 1, Len(p)) = p
\* s.endsWith(p)
endsWith(s, p) == Len(p) <= Len(s) /\ SubSeq(s, Len(s) - Len(p) + 1, Len(s)) = p
\* s.includes(p)
includes(s, p) == \E i \in 1..(Len(s) - Len(p) + 1) : SubSeq(s, i, i + Len(p) - 1) = p

\* all strings over alphabet A of length at most n
Strs(A, n) == UNION {[1..k -> A] : k \in 0..n}

(***************************************************************************)
(* FamilyInferencer (Vercel generator).                                    *)
(***************************************************************************)
\* excerpt of ModelFamilyValues, in the order of the source list
ModelFamilyValues ==
  << <<"g","p","t">>,
     <<"o">>,
     <<"c","l","a","u","d","e">>,
     <<"c","l","a","u","d","e","-","o","p","u","s">>,
     <<"g","l","m">>,
     <<"y","i">> >>

\* target.toLowerCase().includes(family.toLowerCase())
isSubstring(target, family) == includes(toLowerCase(target), toLowerCase(family))

\* the loop of matchesFamily: familyIdx after scanning target[i..]
RECURSIVE matchScan(_, _, _, _)
matchScan(t, f, i, familyIdx) ==
  IF i <= Len(t) /\ familyIdx < Len(f)
  THEN matchScan(t, f, i + 1, IF t[i] = f[familyIdx + 1] THEN familyIdx + 1 ELSE familyIdx)
  ELSE familyIdx
matchesFamily(target, family) ==
  matchScan(toLowerCase(target), toLowerCase(family), 1, 0) = Len(family)

\* [...xs].sort((a, b) => b.length - a.length): stable, longest first
RECURSIVE insertByLength(_, _)
insertByLength(sorted, x) ==
  IF sorted = <<>> THEN <<x>>
  ELSE IF Len(sorted[Len(sorted)]) >= Len(x) THEN Append(sorted, x)
  ELSE Append(insertByLength(SubSeq(sorted, 1, Len(sorted) - 1), x), sorted[Len(sorted)])
RECURSIVE sortByLengthDesc(_)
sortByLengthDesc(xs) ==
  IF xs = <<>> THEN <<>>
  ELSE insertByLength(sortByLengthDesc(SubSeq(xs, 1, Len(xs) - 1)), xs[Len(xs)])
sortedFamilies == sortByLengthDesc(ModelFamilyValues)

\* for (const family of sortedFamilies) if (test(family)) return family:
\* the index of the first family in the set of those that pass, 0 if none
FirstIdx(fams, passing) ==
  IF \E i \in 1..Len(fams) : fams[i] \in passing
  THEN CHOOSE i \in 1..Len(fams) : fams[i] \in passing /\ \A j \in 1..(i - 1) : fams[j] \notin passing
  ELSE 0
\* the families that pass a test
Fams == {sortedFamilies[i] : i \in 1..Len(sortedFamilies)}

inferFamilyVercelMut(modelId, modelName) ==
  LET fams == sortedFamilies
      sub == {f \in Fams : isSubstring(modelId, f) \/ isSubstring(modelName, f)}
      a == FirstIdx(fams, sub)
  IN IF a # 0 THEN Some(fams[a]) ELSE None
inferFamilyVercel(modelId, modelName) ==
  LET fams == sortedFamilies
      subId == {f \in Fams : isSubstring(modelId, f)}
      subName == {f \in Fams : isSubstring(modelName, f)}
      seqId == {f \in Fams : matchesFamily(modelId, f)}
      seqName == {f \in Fams : matchesFamily(modelName, f)}
      a == FirstIdx(fams, subId)
      b == FirstIdx(fams, subName)
      c == FirstIdx(fams, seqId)
      d == FirstIdx(fams, seqName)
  IN IF a # 0 THEN Some(fams[a])
     ELSE IF b # 0 THEN Some(fams[b])
     ELSE IF c # 0 THEN Some(fams[c])
     ELSE IF d # 0 THEN Some(fams[d])
     ELSE None

(***************************************************************************)
(* Records of the catalog.  ExistingModel, MergedModel and the parsed form *)
(* of a TOML file share one shape; every field is optional.                *)
(***************************************************************************)
EmptyCost ==
  [input |-> None, output |-> None, cache_read |-> None, cache_write |-> None,
   context_over_200k |-> None]
EmptyDoc ==
  [name |-> None, family |-> None, attachment |-> None, reasoning |-> None,
   tool_call |-> None, structured_output |-> None, temperature |-> None,
   knowledge |-> None, release_date |-> None, last_updated |-> None,
   open_weights |-> None, interleaved |-> None, status |-> None,
   cost |-> None, limit |-> None, modalities |-> None]

\* interleaved?: boolean | { field: string }
IlBool(b) == [isObj |-> FALSE, b |-> b, field |-> <<>>]
IlObj(f) == [isObj |-> TRUE, b |-> FALSE, field |-> f]

\* existing?.f
Ex(existing, f) == IF IsSome(existing) THEN Get(existing)[f] ELSE None
\* existing?.limit?.f, existing?.cost?.f, existing?.modalities?.f
Ex2(existing, g, f) == IF IsSome(Ex(existing, g)) THEN Get(Ex(existing, g))[f] ELSE None
\* existing?.cost?.context_over_200k?.f
ExOver(existing, f) ==
  IF IsSome(Ex2(existing, "cost", "context_over_200k"))
  THEN Get(Ex2(existing, "cost", "context_over_200k"))[f] ELSE None
\* ...(f !== undefined && { f }) with f = existing?.f, and
\* if (existing?.f !== undefined) merged.f = existing.f
preserveDefinedMut(existing, f) == None
preserveDefined(existing, f) == Ex(existing, f)
\* if (flag === true) merged.f = true: the field is set only when true
onlyIfTrueMut(flag) == Some(flag)
onlyIfTrue(flag) == IF flag THEN Some(TRUE) ELSE None
\* truthiness of an optional string (undefined and "" are falsy)
TruthyStr(o) == IsSome(o) /\ Get(o) # <<>>

SecondsPerDay == 86400
\* new Date(timestamp * 1000).toISOString().slice(0, 10), as a day number
timestampToDate(timestamp) == timestamp \div SecondsPerDay

\* xs.includes(x) on an array
InArr(xs, x) == \E i \in 1..Len(xs) : xs[i] = x

(***************************************************************************)
(* Vercel generator: mergeModel.                                           *)
(* A price string is "" (<<>>) or a numeral <<n>> with parseFloat = n,     *)
(* n counted in PriceUnit-ths of a dollar per token.                       *)
(***************************************************************************)
parseFloat(s) == s[1]
\* pricing.f_tiers?.[0]?.cost ?? pricing.f
TierOr(tiers, flat) == IF IsSome(tiers) /\ Len(Get(tiers)) > 0 THEN Some(Get(tiers)[1]) ELSE flat

buildInputModalitiesVercel(tags) ==
  <<"text">> \o (IF "vision" \in tags THEN <<"image">> ELSE <<>>)
             \o (IF "file-input" \in tags THEN <<"pdf">> ELSE <<>>)

buildOutputModalitiesVercel(modelType, tags) ==
  <<"text">> \o (IF modelType = "image" \/ "image-generation" \in tags THEN <<"image">>
                 ELSE IF modelType = "video" THEN <<"video">> ELSE <<>>)

vercelCost(pricing) ==
  IF ~IsSome(pricing) THEN None
  ELSE LET p == Get(pricing)
           inputPrice == TierOr(p.input_tiers, p.input)
           outputPrice == TierOr(p.output_tiers, p.output)
           cacheReadPrice == TierOr(p.input_cache_read_tiers, p.input_cache_read)
           cacheWritePrice == TierOr(p.input_cache_write_tiers, p.input_cache_write)
       IN IF TruthyStr(inputPrice) /\ TruthyStr(outputPrice)
          THEN Some([EmptyCost EXCEPT
                 !.input = Some(parseFloat(Get(inputPrice)) * 1000000),
                 !.output = Some(parseFloat(Get(outputPrice)) * 1000000),
                 !.cache_read = IF TruthyStr(cacheReadPrice)
                                THEN Some(parseFloat(Get(cacheReadPrice)) * 1000000) ELSE None,
                 !.cache_write = IF TruthyStr(cacheWritePrice)
                                 THEN Some(parseFloat(Get(cacheWritePrice)) * 1000000) ELSE None])
          ELSE None

\* Preserve existing limits if API returns 0 (indicates missing/invalid data)
limitOrExistingMut(apiValue, existingValue) == Some(apiValue)
limitOrExisting(apiValue, existingValue) ==
  IF apiValue > 0 THEN Some(apiValue) ELSE Coalesce(existingValue, Some(0))

mergeModelVercel(apiModel, existing, todayDate) ==
  LET tagSet == apiModel.tags
      knowledge == Ex(existing, "knowledge")
      status == Ex(existing, "status")
      releaseDate ==
        IF IsSome(apiModel.released) /\ Get(apiModel.released) # 0
        THEN Some(timestampToDate(Get(apiModel.released)))
        ELSE Coalesce(Ex(existing, "release_date"), Some(todayDate))
      contextLimit == limitOrExisting(apiModel.context_window, Ex2(existing, "limit", "context"))
      outputLimit == limitOrExisting(apiModel.max_tokens, Ex2(existing, "limit", "output"))
  IN [EmptyDoc EXCEPT
       !.name = Coalesce(Ex(existing, "name"), Some(apiModel.name)),
       !.family = Coalesce(Ex(existing, "family"), inferFamilyVercel(apiModel.id, apiModel.name)),
       !.attachment = Coalesce(Ex(existing, "attachment"),
                               Some("vision" \in tagSet \/ "file-input" \in tagSet)),
       !.reasoning = Coalesce(Ex(existing, "reasoning"), Some("reasoning" \in tagSet)),
       !.tool_call = Coalesce(Ex(existing, "tool_call"), Some("tool-use" \in tagSet)),
       !.temperature = Some(TRUE),
       !.release_date = releaseDate,
       !.last_updated = Some(todayDate),
       !.open_weights = Coalesce(Ex(existing, "open_weights"), Some(FALSE)),
       !.structured_output = Ex(existing, "structured_output"),
       !.knowledge = IF TruthyStr(knowledge) THEN knowledge ELSE None,
       !.interleaved = preserveDefined(existing, "interleaved"),
       !.status = IF TruthyStr(status) THEN status ELSE None,
       !.limit = Some([context |-> contextLimit, output |-> outputLimit]),
       !.modalities = Some([input |-> Some(buildInputModalitiesVercel(apiModel.tags)),
                            output |-> Some(buildOutputModalitiesVercel(apiModel.type, apiModel.tags))]),
       !.cost = vercelCost(apiModel.pricing)]

(***************************************************************************)
(* Venice generator: inferFamily and mergeModel.                           *)
(***************************************************************************)
inferFamilyVenice(modelId, modelName) ==
  LET fams == sortedFamilies
      seqId == {f \in Fams : matchesFamily(modelId, f)}
      seqName == {f \in Fams : matchesFamily(modelName, f)}
      a == FirstIdx(fams, seqId)
      b == FirstIdx(fams, seqName)
  IN IF a # 0 THEN Some(fams[a]) ELSE IF b # 0 THEN Some(fams[b]) ELSE None

buildInputModalitiesVenice(caps) ==
  <<"text">> \o (IF caps.supportsVision = Some(TRUE) THEN <<"image">> ELSE <<>>)
             \o (IF caps.supportsAudioInput = Some(TRUE) THEN <<"audio">> ELSE <<>>)
             \o (IF caps.supportsVideoInput = Some(TRUE) THEN <<"video">> ELSE <<>>)

\* a PricingTier { usd } that may be absent
Usd(tier) == IF IsSome(tier) THEN Some(Get(tier).usd) ELSE None

veniceCost(pricing) ==
  IF ~IsSome(pricing) THEN None
  ELSE LET p == Get(pricing)
       IN Some([input |-> Some(p.input.usd),
                output |-> Some(p.output.usd),
                cache_read |-> Usd(p.cache_input),
                cache_write |-> Usd(p.cache_write),
                context_over_200k |->
                  IF IsSome(p.extended)
                  THEN Some([input |-> Some(Get(p.extended).input.usd),
                             output |-> Some(Get(p.extended).output.usd),
                             cache_read |-> Usd(Get(p.extended).cache_input),
                             cache_write |-> Usd(Get(p.extended).cache_write)])
                  ELSE None])

\* the outputTokens expression of Venice's mergeModel
veniceOutputTokensMut(existingOutput, proposedOutputTokens) == Some(proposedOutputTokens)
veniceOutputTokens(existingOutput, proposedOutputTokens) ==
  IF IsSome(existingOutput) /\ Get(existingOutput) < proposedOutputTokens
  THEN existingOutput
  ELSE Some(proposedOutputTokens)

mergeModelVenice(apiModel, existing, todayDate) ==
  LET spec == apiModel.model_spec
      caps == spec.capabilities
      contextTokens == spec.availableContextTokens
      proposedOutputTokens == contextTokens \div 4
      outputTokens == veniceOutputTokens(Ex2(existing, "limit", "output"), proposedOutputTokens)
      openWeights ==
        IF TruthyStr(spec.modelSource)
        THEN includes(toLowerCase(Get(spec.modelSource)), <<"huggingface">>)
        ELSE spec.privacy = Some(<<"private">>)
      built == buildInputModalitiesVenice(caps)
      exIn == Ex2(existing, "modalities", "input")
      inputModalities ==
        IF IsSome(exIn) /\ InArr(Get(exIn), "pdf") /\ ~InArr(built, "pdf")
        THEN Append(built, "pdf") ELSE built
      attachment == caps.supportsVision = Some(TRUE)
                    \/ caps.supportsAudioInput = Some(TRUE)
                    \/ caps.supportsVideoInput = Some(TRUE)
      inferred == inferFamilyVenice(apiModel.id, spec.name)
  IN [EmptyDoc EXCEPT
       !.name = Some(spec.name),
       !.attachment = Some(attachment),
       !.reasoning = Some(caps.supportsReasoning = Some(TRUE)),
       !.tool_call = Some(caps.supportsFunctionCalling = Some(TRUE)),
       !.temperature = Some(TRUE),
       !.release_date = Some(timestampToDate(apiModel.created)),
       !.last_updated = Some(todayDate),
       !.open_weights = Some(openWeights),
       !.limit = Some([context |-> Some(contextTokens), output |-> outputTokens]),
       !.modalities = Some([input |-> Some(inputModalities), output |-> Some(<<"text">>)]),
       !.structured_output = onlyIfTrue(caps.supportsResponseSchema = Some(TRUE)),
       !.cost = veniceCost(spec.pricing),
       !.family = Coalesce(inferred, Ex(existing, "family")),
       !.knowledge = IF TruthyStr(Ex(existing, "knowledge")) THEN Ex(existing, "knowledge") ELSE None,
       !.interleaved = preserveDefined(existing, "interleaved"),
       !.status = preserveDefined(existing, "status")]

(***************************************************************************)
(* Friendli generator: inferFamily, extractModelName, isReasoningModel and *)
(* mergeModel.  Friendli ids and names are sequences of word atoms         *)
(* ("llama", "qwen", "instruct", ...) and separator characters.            *)
(***************************************************************************)
\* familyPatterns: [RegExp, family][]; every pattern is a literal, flag i
familyPatterns ==
  << << <<"llama","-","3",".","3">>, <<"llama","-","3",".","3">> >>,
     << <<"llama","-","3",".","1">>, <<"llama","-","3",".","1">> >>,
     << <<"llama","-","4">>, <<"llama","-","4">> >>,
     << <<"qwen","3">>, <<"qwen","3">> >>,
     << <<"deepseek","-","r1">>, <<"deepseek","-","r1">> >>,
     << <<"exaone">>, <<"exaone">> >>,
     << <<"glm","-","4">>, <<"glm","-","4">> >>,
     << <<"glm","-","5">>, <<"glm">> >> >>

\* pattern.test(s) for a literal pattern with flag i
testLiteral(pattern, s) == includes(toLowerCase(s), pattern)

inferFamilyFriendli(modelId, modelName) ==
  LET hit(i) == testLiteral(familyPatterns[i][1], modelId)
                \/ testLiteral(familyPatterns[i][1], modelName)
  IN IF \E i \in 1..Len(familyPatterns) : hit(i)
     THEN Some(familyPatterns[CHOOSE i \in 1..Len(familyPatterns) :
                                hit(i) /\ \A j \in 1..(i - 1) : ~hit(j)][2])
     ELSE None

UpperAtom(c) ==
  CASE c = "c" -> "C"
    [] c = "g" -> "G"
    [] c = "o" -> "O"
    [] c = "p" -> "P"
    [] c = "t" -> "T"
    [] c = "llama" -> "Llama"
    [] c = "qwen" -> "Qwen"
    [] c = "instruct" -> "Instruct"
    [] OTHER -> c
IsSeparator(c) == c \in {" ", "-", "/", "."}
\* index of the last "/" of s, 0 if none
LastSlash(s) ==
  IF \E i \in 1..Len(s) : s[i] = "/"
  THEN CHOOSE i \in 1..Len(s) : s[i] = "/" /\ \A j \in (i + 1)..Len(s) : s[j] # "/"
  ELSE 0
\* s.split("/").at(-1)
LastSegment(s) == SubSeq(s, LastSlash(s) + 1, Len(s))
\* fullName.split("/").at(-1).replace(/-/g, " ").replace(/\b\w/g, upper)
extractModelNameFriendli(fullName) ==
  LET modelName == LastSegment(fullName)
      spaced == [i \in 1..Len(modelName) |-> IF modelName[i] = "-" THEN " " ELSE modelName[i]]
  IN [i \in 1..Len(spaced) |->
        IF i = 1 \/ IsSeparator(spaced[i - 1]) THEN UpperAtom(spaced[i]) ELSE spaced[i]]

Digits == {"1", "3", "4", "5"}
\* /llama-3\.\d.*instruct/i or /qwen3.*instruct/i matches: not a reasoning model
isReasoningModel(modelId) ==
  LET id == toLowerCase(modelId)
      llama == \E i \in 1..Len(id) :
                 /\ i + 4 <= Len(id)
                 /\ SubSeq(id, i, i + 3) = <<"llama","-","3",".">>
                 /\ id[i + 4] \in Digits
                 /\ \E j \in (i + 5)..Len(id) : id[j] = "instruct"
      qwen == \E i \in 1..Len(id) :
                 /\ i + 1 <= Len(id)
                 /\ SubSeq(id, i, i + 1) = <<"qwen","3">>
                 /\ \E j \in (i + 2)..Len(id) : id[j] = "instruct"
  IN ~(llama \/ qwen)

mergeModelFriendli(apiModel, existing, todayDate) ==
  LET inferred == inferFamilyFriendli(apiModel.id, apiModel.name)
  IN [EmptyDoc EXCEPT
       !.name = Some(extractModelNameFriendli(apiModel.name)),
       !.attachment = Some(FALSE),
       !.reasoning = Some(isReasoningModel(apiModel.id)),
       !.tool_call = Some(apiModel.functionality.tool_call),
       !.temperature = Some(TRUE),
       !.release_date = Some(timestampToDate(apiModel.created)),
       !.last_updated = Some(todayDate),
       !.open_weights = Some(TruthyStr(apiModel.hugging_face_url)),
       !.limit = Some([context |-> Some(apiModel.context_length),
                       output |-> Some(apiModel.max_completion_tokens)]),
       !.modalities = Some([input |-> Some(<<"text">>), output |-> Some(<<"text">>)]),
       !.structured_output = onlyIfTrue(apiModel.functionality.structured_output),
       !.cost = IF apiModel.pricing.unit_type = "TOKEN"
                THEN Some([EmptyCost EXCEPT !.input = Some(apiModel.pricing.input),
                                            !.output = Some(apiModel.pricing.output)])
                ELSE None,
       !.family = IF TruthyStr(Ex(existing, "family")) THEN Ex(existing, "family")
                  ELSE IF TruthyStr(inferred) THEN inferred ELSE None,
       !.knowledge = IF TruthyStr(Ex(existing, "knowledge")) THEN Ex(existing, "knowledge") ELSE None,
       !.interleaved = preserveDefined(existing, "interleaved"),
       !.status = preserveDefined(existing, "status")]

\* mergeModel of the generator of provider p
mergeModel(p, apiModel, existing, todayDate) ==
  CASE p = "vercel" -> mergeModelVercel(apiModel, existing, todayDate)
    [] p = "venice" -> mergeModelVenice(apiModel, existing, todayDate)
    [] p = "friendli" -> mergeModelFriendli(apiModel, existing, todayDate)

(***************************************************************************)
(* formatToml.  The text written is represented by the TOML document it    *)
(* denotes (what a TOML parser reads back from it); names are taken to     *)
(* hold no backslash or control character.                                 *)
(***************************************************************************)
\* the lines before the [cost] section: a key is written only under its if
formatTomlHead(model) ==
  [EmptyDoc EXCEPT
    !.name = model.name,
    !.family = IF TruthyStr(model.family) THEN model.family ELSE None,
    !.attachment = model.attachment,
    !.reasoning = model.reasoning,
    !.tool_call = model.tool_call,
    !.structured_output = model.structured_output,
    !.temperature = model.temperature,
    !.knowledge = IF TruthyStr(model.knowledge) THEN model.knowledge ELSE None,
    !.release_date = model.release_date,
    !.last_updated = model.last_updated,
    !.open_weights = model.open_weights,
    !.status = IF TruthyStr(model.status) THEN model.status ELSE None,
    !.interleaved = IF IsSome(model.interleaved)
                       /\ (Get(model.interleaved).isObj \/ Get(model.interleaved).b)
                    THEN model.interleaved ELSE None,
    !.limit = Some([context |-> Get(model.limit).context, output |-> Get(model.limit).output]),
    !.modalities = model.modalities]

formatTomlVercel(model) ==
  [formatTomlHead(model) EXCEPT
    !.cost = IF IsSome(model.cost)
             THEN Some([EmptyCost EXCEPT !.input = Get(model.cost).input,
                                         !.output = Get(model.cost).output,
                                         !.cache_read = Get(model.cost).cache_read,
                                         !.cache_write = Get(model.cost).cache_write])
             ELSE None]

formatTomlVenice(model) ==
  [formatTomlHead(model) EXCEPT
    !.cost = IF IsSome(model.cost)
             THEN Some([input |-> Get(model.cost).input,
                        output |-> Get(model.cost).output,
                        cache_read |-> Get(model.cost).cache_read,
                        cache_write |-> Get(model.cost).cache_write,
                        context_over_200k |-> Get(model.cost).context_over_200k])
             ELSE None]

formatTomlFriendli(model) ==
  [formatTomlHead(model) EXCEPT
    !.cost = IF IsSome(model.cost)
             THEN Some([EmptyCost EXCEPT !.input = Get(model.cost).input,
                                         !.output = Get(model.cost).output])
             ELSE None]

formatToml(p, model) ==
  CASE p = "vercel" -> formatTomlVercel(model)
    [] p = "venice" -> formatTomlVenice(model)
    [] p = "friendli" -> formatTomlFriendli(model)

(***************************************************************************)
(* The store: a file is absent, unparseable, or a TOML document.           *)
(***************************************************************************)
NoFile == [kind |-> "absent", doc |-> EmptyDoc]
Garbage == [kind |-> "garbage", doc |-> EmptyDoc]
TomlFile(d) == [kind |-> "toml", doc |-> d]

\* loadExistingModel: null when the file is missing or its import throws
loadExistingModelMut(file) ==
  IF file.kind = "absent" THEN None ELSE Some(file.doc)
loadExistingModel(file) ==
  IF file.kind = "absent" THEN None
  ELSE IF file.kind = "garbage" THEN None
  ELSE Some(file.doc)

(***************************************************************************)
(* detectChanges.  A change entry is represented by its field name; the    *)
(* formatted old and new values only feed the log.                         *)
(***************************************************************************)
\* price diff to ignore: 0.001 dollar per million tokens
EPSILON == 1000000
SkipZeroFields == {"limit.context", "limit.output"}
Abs(x) == IF x < 0 THEN -x ELSE x

shouldSkipZero(field, oldVal, newVal) ==
  /\ field \in SkipZeroFields
  /\ (oldVal = Some(0) \/ newVal = Some(0))

isMaterialPriceDiffMut(oldPrice, newPrice) ==
  IF oldPrice = Some(0) /\ newPrice = None THEN FALSE
  ELSE IF IsSome(oldPrice) /\ IsSome(newPrice)
       THEN Abs(Get(oldPrice) - Get(newPrice)) >= EPSILON
       ELSE oldPrice # newPrice
isMaterialPriceDiff(oldPrice, newPrice) ==
  IF oldPrice = Some(0) /\ newPrice = None THEN FALSE
  ELSE IF IsSome(oldPrice) /\ IsSome(newPrice)
       THEN Abs(Get(oldPrice) - Get(newPrice)) > EPSILON
       ELSE oldPrice # newPrice

IsCostField(field) == field \in {"cost.input", "cost.output", "cost.cache_read", "cost.cache_write"}

compareVercel(field, oldVal, newVal) ==
  IF shouldSkipZero(field, oldVal, newVal) THEN <<>>
  ELSE IF (IF IsCostField(field) THEN isMaterialPriceDiff(oldVal, newVal) ELSE oldVal # newVal)
       THEN <<field>> ELSE <<>>

\* JSON.stringify(oldVal) !== JSON.stringify(newVal)
compareJsonMut(field, oldVal, newVal) == <<>>
compareJson(field, oldVal, newVal) == IF oldVal # newVal THEN <<field>> ELSE <<>>

detectChangesVercel(existing, merged) ==
  IF ~IsSome(existing) THEN <<>>
  ELSE LET m == Some(merged)
       IN compareVercel("name", Ex(existing, "name"), merged.name)
          \o compareVercel("family", Ex(existing, "family"), merged.family)
          \o compareVercel("attachment", Ex(existing, "attachment"), merged.attachment)
          \o compareVercel("reasoning", Ex(existing, "reasoning"), merged.reasoning)
          \o compareVercel("tool_call", Ex(existing, "tool_call"), merged.tool_call)
          \o compareVercel("structured_output", Ex(existing, "structured_output"), merged.structured_output)
          \o compareVercel("open_weights", Ex(existing, "open_weights"), merged.open_weights)
          \o compareVercel("release_date", Ex(existing, "release_date"), merged.release_date)
          \o compareVercel("cost.input", Ex2(existing, "cost", "input"), Ex2(m, "cost", "input"))
          \o compareVercel("cost.output", Ex2(existing, "cost", "output"), Ex2(m, "cost", "output"))
          \o compareVercel("cost.cache_read", Ex2(existing, "cost", "cache_read"), Ex2(m, "cost", "cache_read"))
          \o compareVercel("cost.cache_write", Ex2(existing, "cost", "cache_write"), Ex2(m, "cost", "cache_write"))
          \o compareVercel("limit.context", Ex2(existing, "limit", "context"), Ex2(m, "limit", "context"))
          \o compareVercel("limit.output", Ex2(existing, "limit", "output"), Ex2(m, "limit", "output"))
          \o compareVercel("modalities.input", Ex2(existing, "modalities", "input"), Ex2(m, "modalities", "input"))

\* the compare calls Venice and Friendli share
detectChangesCommonHead(existing, merged) ==
  LET m == Some(merged)
  IN compareJson("name", Ex(existing, "name"), merged.name)
     \o compareJson("family", Ex(existing, "family"), merged.family)
     \o compareJson("attachment", Ex(existing, "attachment"), merged.attachment)
     \o compareJson("reasoning", Ex(existing, "reasoning"), merged.reasoning)
     \o compareJson("tool_call", Ex(existing, "tool_call"), merged.tool_call)
     \o compareJson("structured_output", Ex(existing, "structured_output"), merged.structured_output)
     \o compareJson("open_weights", Ex(existing, "open_weights"), merged.open_weights)
     \o compareJson("release_date", Ex(existing, "release_date"), merged.release_date)
     \o compareJson("cost.input", Ex2(existing, "cost", "input"), Ex2(m, "cost", "input"))
     \o compareJson("cost.output", Ex2(existing, "cost", "output"), Ex2(m, "cost", "output"))
detectChangesCommonTail(existing, merged) ==
  LET m == Some(merged)
  IN compareJson("limit.context", Ex2(existing, "limit", "context"), Ex2(m, "limit", "context"))
     \o compareJson("limit.output", Ex2(existing, "limit", "output"), Ex2(m, "limit", "output"))
     \o compareJson("modalities.input", Ex2(existing, "modalities", "input"), Ex2(m, "modalities", "input"))

detectChangesVenice(existing, merged) ==
  IF ~IsSome(existing) THEN <<>>
  ELSE LET m == Some(merged)
       IN detectChangesCommonHead(existing, merged)
          \o compareJson("cost.cache_read", Ex2(existing, "cost", "cache_read"), Ex2(m, "cost", "cache_read"))
          \o compareJson("cost.cache_write", Ex2(existing, "cost", "cache_write"), Ex2(m, "cost", "cache_write"))
          \o compareJson("cost.context_over_200k.input", ExOver(existing, "input"), ExOver(m, "input"))
          \o compareJson("cost.context_over_200k.output", ExOver(existing, "output"), ExOver(m, "output"))
          \o compareJson("cost.context_over_200k.cache_read", ExOver(existing, "cache_read"), ExOver(m, "cache_read"))
          \o compareJson("cost.context_over_200k.cache_write", ExOver(existing, "cache_write"), ExOver(m, "cache_write"))
          \o detectChangesCommonTail(existing, merged)

detectChangesFriendli(existing, merged) ==
  IF ~IsSome(existing) THEN <<>>
  ELSE detectChangesCommonHead(existing, merged) \o detectChangesCommonTail(existing, merged)

detectChanges(p, existing, merged) ==
  CASE p = "vercel" -> detectChangesVercel(existing, merged)
    [] p = "venice" -> detectChangesVenice(existing, merged)
    [] p = "friendli" -> detectChangesFriendli(existing, merged)

(***************************************************************************)
(* Jiekou generator.  Ids and patterns are sequences of word atoms and the *)
(* characters "/" and "*".                                                 *)
(***************************************************************************)
\* excerpt of SKIP_MODELS, one pattern of each form and letter case
SKIP_MODELS_JIEKOU ==
  << <<"meta-llama", "/", "*">>,
     <<"Sao10K", "/", "*">>,
     <<"gpt-4", "*">>,
     <<"gpt-5">>,
     <<"nova-2-Lite">> >>

\* whether one pattern of SKIP_MODELS makes shouldSkipModel return true
skipPatternMatchesMut(lowerModelId, pattern) ==
  LET lowerPattern == toLowerCase(pattern)
      n == Len(lowerPattern)
  IN IF endsWith(lowerPattern, <<"/", "*">>)
     THEN startsWith(lowerModelId, SubSeq(lowerPattern, 1, n - 2) \o <<"/">>)
     ELSE IF endsWith(lowerPattern, <<"*">>)
     THEN LET prefix == SubSeq(lowerPattern, 1, n - 1)
          IN startsWith(lowerModelId, prefix) \/ includes(lowerModelId, <<"/">> \o prefix)
     ELSE lowerModelId = lowerPattern \/ endsWith(lowerModelId, <<"/">> \o lowerPattern)
skipPatternMatches(lowerModelId, pattern) ==
  LET lowerPattern == toLowerCase(pattern)
      n == Len(lowerPattern)
  IN IF endsWith(lowerPattern, <<"/", "*">>)
     THEN LET prefix == SubSeq(lowerPattern, 1, n - 2)
          IN includes(lowerModelId, prefix \o <<"/">>) \/ startsWith(lowerModelId, prefix \o <<"/">>)
     ELSE IF endsWith(lowerPattern, <<"*">>)
     THEN LET prefix == SubSeq(lowerPattern, 1, n - 1)
          IN startsWith(lowerModelId, prefix) \/ includes(lowerModelId, <<"/">> \o prefix)
     ELSE lowerModelId = lowerPattern \/ endsWith(lowerModelId, <<"/">> \o lowerPattern)

shouldSkipModelMut(modelId) ==
  \E i \in 1..Len(SKIP_MODELS_JIEKOU) : skipPatternMatches(modelId, SKIP_MODELS_JIEKOU[i])
shouldSkipModel(modelId) ==
  \E i \in 1..Len(SKIP_MODELS_JIEKOU) :
    skipPatternMatches(toLowerCase(modelId), SKIP_MODELS_JIEKOU[i])

\* excerpt of OPEN_WEIGHTS_PATTERNS
OPEN_WEIGHTS_PATTERNS == << <<"deepseek">>, <<"qwen">>, <<"llama">> >>
isOpenWeights(modelId) ==
  \E i \in 1..Len(OPEN_WEIGHTS_PATTERNS) : includes(toLowerCase(modelId), OPEN_WEIGHTS_PATTERNS[i])

inferFamilyJiekou(modelId) ==
  LET fams == sortedFamilies
      baseName == IF InArr(modelId, "/") THEN LastSegment(modelId) ELSE modelId
      seqBase == {f \in Fams : matchesFamily(baseName, f)}
      a == FirstIdx(fams, seqBase)
  IN IF a # 0 THEN Some(fams[a]) ELSE None

\* `${year}-${month}` of the run date, as a month number (run dates of the
\* model lie in one month of 31 days)
getYearMonth(todayDate) == todayDate \div 31

\* apiModel.f ?? dflt for an optional array
OrDefault(o, dflt) == IF IsSome(o) THEN Get(o) ELSE dflt

\* prices arrive in 0.0001 USD: price / 10000, in the price unit of the model
processModel(apiModel, todayDate) ==
  LET features == OrDefault(apiModel.features, <<>>)
      inputModalities == OrDefault(apiModel.input_modalities, <<"text">>)
      outputModalities == OrDefault(apiModel.output_modalities, <<"text">>)
      yearMonth == getYearMonth(todayDate)
  IN [EmptyDoc EXCEPT
       !.name = Some(apiModel.id),
       !.family = inferFamilyJiekou(apiModel.id),
       !.release_date = Some(yearMonth),
       !.last_updated = Some(yearMonth),
       !.attachment = Some(InArr(inputModalities, "image") \/ InArr(inputModalities, "video")
                           \/ InArr(inputModalities, "audio")),
       !.reasoning = Some(InArr(features, "reasoning")),
       !.temperature = Some(TRUE),
       !.tool_call = Some(InArr(features, "function-calling")),
       !.structured_output = Some(InArr(features, "structured-outputs")),
       !.open_weights = Some(isOpenWeights(apiModel.id)),
       !.cost = Some([EmptyCost EXCEPT !.input = Some(apiModel.input_token_price_per_m * 100000),
                                       !.output = Some(apiModel.output_token_price_per_m * 100000)]),
       !.limit = Some([context |-> Some(apiModel.context_size),
                       output |-> Some(apiModel.max_output_tokens)]),
       !.modalities = Some([input |-> Some(inputModalities), output |-> Some(outputModalities)])]

formatTomlJiekou(model) ==
  [EmptyDoc EXCEPT
    !.name = model.name,
    !.family = IF TruthyStr(model.family) THEN model.family ELSE None,
    !.release_date = model.release_date,
    !.last_updated = model.last_updated,
    !.attachment = model.attachment,
    !.reasoning = model.reasoning,
    !.temperature = model.temperature,
    !.tool_call = model.tool_call,
    !.structured_output = model.structured_output,
    !.open_weights = model.open_weights,
    !.cost = Some([EmptyCost EXCEPT !.input = Get(model.cost).input,
                                    !.output = Get(model.cost).output]),
    !.limit = model.limit,
    !.modalities = model.modalities]

\* content.match(/^name\s*=\s*"([^"]+)"/m): the name line of a file, if any
extractModelName(file) ==
  IF file.kind = "toml" /\ TruthyStr(file.doc.name) THEN file.doc.name ELSE None

(***************************************************************************)
(* Helicone generator: the registry is written out afresh on every run.    *)
(***************************************************************************)
\* the endpoint whose provider is the author, else the first one, if any
pickEndpoint(m) ==
  IF ~IsSome(m.endpoints) \/ Get(m.endpoints) = <<>> THEN None
  ELSE LET eps == Get(m.endpoints)
           hit == {i \in 1..Len(eps) : IsSome(m.author) /\ eps[i].provider = Get(m.author)}
       IN IF hit # {} THEN Some(eps[CHOOSE i \in hit : \A j \in hit : i <= j])
          ELSE Some(eps[1])
\* keys.some(k => params lowercased has k), keys being lower case
boolFromParams(params, keys) ==
  \E i \in 1..Len(params) : toLowerCase(params[i]) \in keys
\* the allowed values of values, lowercased; ["text"] if none is left
sanitizeModalities(values) ==
  LET allowed == {<<"text">>, <<"audio">>, <<"image">>, <<"video">>, <<"pdf">>}
      out == SelectSeq([i \in 1..Len(OrDefault(values, <<>>)) |->
                          toLowerCase(OrDefault(values, <<>>)[i])],
                       LAMBDA v : v \in allowed)
  IN IF out = <<>> THEN << <<"text">> >> ELSE out
NoPricing ==
  [prompt |-> None, completion |-> None, cacheRead |-> None, cacheWrite |-> None,
   reasoning |-> None]
\* formatToml of generate-helicone.ts
formatTomlHelicone(model, todayDate) ==
  LET ep == pickEndpoint(model)
      pricing == IF IsSome(ep) THEN Get(ep).pricing ELSE None
      supported == OrDefault(model.supportedParameters, <<>>)
      releaseDate == IF IsSome(model.trainingDate) THEN Get(model.trainingDate) ELSE todayDate
      reasoning == boolFromParams(supported, {<<"reasoning">>, <<"include_reasoning">>})
      pr == OrDefault(pricing, NoPricing)
      \* (prompt ?? completion ?? cacheRead ?? cacheWrite ??
      \*  (reasoning && pricing.reasoning)) !== undefined
      hasCost == /\ IsSome(pricing)
                 /\ \/ IsSome(pr.prompt) \/ IsSome(pr.completion)
                    \/ IsSome(pr.cacheRead) \/ IsSome(pr.cacheWrite)
                    \/ ~reasoning \/ IsSome(pr.reasoning)
  IN [EmptyDoc EXCEPT
       !.name = Some(model.name),
       !.release_date = Some(releaseDate),
       !.last_updated = Some(releaseDate),
       !.attachment = Some(FALSE),
       !.reasoning = Some(reasoning),
       !.temperature = Some(boolFromParams(supported, {<<"temperature">>})),
       !.tool_call = Some(boolFromParams(supported, {<<"tools">>, <<"tool_choice">>})),
       !.knowledge = IF IsSome(model.trainingDate)
                     THEN Some(getYearMonth(Get(model.trainingDate))) ELSE None,
       !.open_weights = Some(FALSE),
       !.cost = IF hasCost
                THEN Some([input |-> pr.prompt, output |-> pr.completion,
                           reasoning |-> IF reasoning THEN pr.reasoning ELSE None,
                           cache_read |-> pr.cacheRead, cache_write |-> pr.cacheWrite])
                ELSE None,
       !.limit = Some([context |-> Some(OrDefault(model.contextLength, 0)),
                       output |-> Some(OrDefault(model.maxOutput, 4096))]),
       !.modalities = Some([input |-> Some(sanitizeModalities(model.inputModalities)),
                            output |-> Some(sanitizeModalities(model.outputModalities))])]

(***************************************************************************)
(* Ollama Cloud generator.                                                 *)
(***************************************************************************)
modelFileName(modelName) == modelName \o <<".toml">>
\* existingData?.limit.output throws when the parsed file has no limit table
ollamaThrows(existingData) == IsSome(existingData) /\ ~IsSome(Get(existingData).limit)
\* the ollamaModel object built from the details of one model
ollamaModelMut(name, data, existingData, todayDate) ==
  [EmptyDoc EXCEPT
    !.name = Some(name),
    !.family = Some(data.details.family),
    !.attachment = Some("vision" \in data.capabilities),
    !.reasoning = Some("thinking" \in data.capabilities),
    !.tool_call = Some("tools" \in data.capabilities),
    !.release_date = Ex(existingData, "release_date"),
    !.knowledge = Ex(existingData, "knowledge"),
    !.last_updated = Some(todayDate),
    !.open_weights = Some(TRUE),
    !.modalities = Some([input |-> Some(IF "vision" \in data.capabilities
                                        THEN <<"text", "image">> ELSE <<"text">>),
                         output |-> Some(<<"text">>)]),
    !.limit = Some([context |-> Some(OrDefault(data.context_length, 0)),
                    output |-> Ex2(existingData, "limit", "output")])]
ollamaModel(name, data, existingData, todayDate) ==
  [EmptyDoc EXCEPT
    !.name = Some(name),
    !.family = Coalesce(Ex(existingData, "family"), Some(data.details.family)),
    !.attachment = Some("vision" \in data.capabilities),
    !.reasoning = Some("thinking" \in data.capabilities),
    !.tool_call = Some("tools" \in data.capabilities),
    !.release_date = Ex(existingData, "release_date"),
    !.knowledge = Ex(existingData, "knowledge"),
    !.last_updated = Some(todayDate),
    !.open_weights = Some(TRUE),
    !.modalities = Some([input |-> Some(IF "vision" \in data.capabilities
                                        THEN <<"text", "image">> ELSE <<"text">>),
                         output |-> Some(<<"text">>)]),
    !.limit = Some([context |-> Some(OrDefault(data.context_length, 0)),
                    output |-> Ex2(existingData, "limit", "output")])]
\* generateToml: release_date and knowledge are written only when truthy (a
\* date that is present is not the empty string)
generateToml(modelName, model) ==
  [EmptyDoc EXCEPT
    !.name = Some(modelName),
    !.family = model.family,
    !.attachment = model.attachment,
    !.reasoning = model.reasoning,
    !.tool_call = model.tool_call,
    !.release_date = model.release_date,
    !.knowledge = IF TruthyStr(model.knowledge) THEN model.knowledge ELSE None,
    !.last_updated = model.last_updated,
    !.open_weights = model.open_weights,
    !.limit = model.limit,
    !.modalities = model.modalities]

(***************************************************************************)
(* Inputs of the sync drivers: model ids, source records, persisted files. *)
(***************************************************************************)
IdA == <<"g", "/", "o">>
IdB == <<"g", "-", "o">>
IdC == <<"z">>
\* the generators that merge a source record into the persisted one
Providers == {"vercel", "venice", "friendli"}
AllProviders == Providers \cup {"jiekou"}
\* every TypeScript generator that fetches a payload
FetchProviders == AllProviders \cup {"helicone", "ollama"}
IdQ == <<"q">>
JkSkipNested == <<"meta-llama", "/", "z">>
JkKeep == <<"deepseek", "/", "o">>
JkSkipFlat == <<"gpt-5">>
\* the ids a payload of provider p is drawn from; IdA and IdB differ only in
\* the separator Venice's file naming rewrites
SyncIds(p) ==
  CASE p = "venice" -> {IdA, IdB, IdC}
    [] p = "jiekou" -> {JkSkipNested, JkKeep, JkSkipFlat}
    [] p = "helicone" -> {IdA, IdB, IdC}
    [] p = "ollama" -> {IdC, IdQ}
    [] OTHER -> {IdA, IdC}

\* apiModel.id.replace(/\//g, "-")
safeId(id) == [i \in 1..Len(id) |-> IF id[i] = "/" THEN "-" ELSE id[i]]
\* relativePath (Vercel, Friendli, Jiekou) or filename (Venice) of a source id
storePath(p, id) ==
  IF p \in {"venice", "helicone"} THEN safeId(id) \o <<".toml">>
  ELSE IF p = "ollama" THEN modelFileName(id)
  ELSE id \o <<".toml">>
\* the files a store may hold: those of the ids and, for Helicone, one in a
\* subfolder of the output directory
Files(p) ==
  {storePath(p, id) : id \in SyncIds(p)}
    \cup (IF p = "helicone" THEN {IdA \o <<".toml">>} ELSE {})
\* path.dirname(filePath) relative to modelsDir; <<>> is modelsDir itself
dirname(path) == IF LastSlash(path) = 0 THEN <<>> ELSE SubSeq(path, 1, LastSlash(path) - 1)

NoTiers ==
  [input |-> None, output |-> None, input_cache_read |-> None, input_cache_write |-> None,
   input_tiers |-> None, output_tiers |-> None,
   input_cache_read_tiers |-> None, input_cache_write_tiers |-> None]
VercelRich(id) ==
  [id |-> id, name |-> <<"G">>, created |-> SecondsPerDay, released |-> Some(2 * SecondsPerDay + 5),
   context_window |-> 8000, max_tokens |-> 4000, type |-> "language", tags |-> {"vision"},
   pricing |-> Some([NoTiers EXCEPT !.input = Some(<<2>>), !.output = Some(<<4>>)])]
VercelBare(id) ==
  [id |-> id, name |-> <<"z">>, created |-> SecondsPerDay, released |-> None,
   context_window |-> 0, max_tokens |-> 0, type |-> "language", tags |-> {},
   pricing |-> None]
\* a free model: the source prices it at "0"
VercelFree(id) ==
  [VercelBare(id) EXCEPT
     !.pricing = Some([NoTiers EXCEPT !.input = Some(<<0>>), !.output = Some(<<0>>)])]
VercelImage(id) == [VercelRich(id) EXCEPT !.type = "image"]

NoCaps ==
  [supportsVision |-> None, supportsAudioInput |-> None, supportsVideoInput |-> None,
   supportsReasoning |-> None, supportsFunctionCalling |-> None, supportsResponseSchema |-> None]
VeniceRich(id) ==
  [id |-> id, created |-> 3 * SecondsPerDay,
   model_spec |->
     [pricing |-> Some([input |-> [usd |-> 5 * EPSILON], output |-> [usd |-> 7 * EPSILON],
                        cache_input |-> Some([usd |-> EPSILON]), cache_write |-> None,
                        extended |-> None]),
      availableContextTokens |-> 8000,
      capabilities |-> [NoCaps EXCEPT !.supportsVision = Some(TRUE),
                                      !.supportsResponseSchema = Some(TRUE)],
      name |-> <<"G">>, modelSource |-> None, privacy |-> Some(<<"private">>)]]
VeniceBare(id) ==
  [id |-> id, created |-> 3 * SecondsPerDay,
   model_spec |->
     [pricing |-> None, availableContextTokens |-> 2000, capabilities |-> NoCaps,
      name |-> <<"z">>, modelSource |-> None, privacy |-> None]]

FriendliRich(id) ==
  [id |-> id, name |-> <<"org", "/", "qwen", "3", "-", "instruct">>,
   max_completion_tokens |-> 4000, context_length |-> 8000,
   functionality |-> [tool_call |-> TRUE, parallel_tool_call |-> TRUE, structured_output |-> TRUE],
   pricing |-> [input |-> 5 * EPSILON, output |-> 7 * EPSILON, response_time |-> 0, unit_type |-> "TOKEN"],
   hugging_face_url |-> Some(<<"hf">>), created |-> 3 * SecondsPerDay]
FriendliBare(id) ==
  [id |-> id, name |-> <<"z">>,
   max_completion_tokens |-> 2000, context_length |-> 2000,
   functionality |-> [tool_call |-> FALSE, parallel_tool_call |-> FALSE, structured_output |-> FALSE],
   pricing |-> [input |-> 1, output |-> 1, response_time |-> 0, unit_type |-> "SECOND"],
   hugging_face_url |-> None, created |-> 3 * SecondsPerDay]

JiekouRich(id) ==
  [id |-> id, input_token_price_per_m |-> 200, output_token_price_per_m |-> 600,
   context_size |-> 8000, max_output_tokens |-> 4000,
   features |-> Some(<<"serverless", "function-calling", "structured-outputs">>),
   input_modalities |-> Some(<<"text", "image">>), output_modalities |-> None]

HeliconeRich(id) ==
  [id |-> id, name |-> <<"G">>, author |-> Some(<<"b">>), trainingDate |-> Some(40),
   supportedParameters |-> Some(<< <<"Tools">>, <<"reasoning">> >>),
   endpoints |-> Some(<< [provider |-> <<"a">>, pricing |-> None],
                         [provider |-> <<"b">>,
                          pricing |-> Some([NoPricing EXCEPT !.prompt = Some(2), !.reasoning = Some(3)])] >>),
   contextLength |-> Some(8000), maxOutput |-> None,
   inputModalities |-> Some(<< <<"text">>, <<"Image">>, <<"3d">> >>), outputModalities |-> None]
HeliconeBare(id) ==
  [id |-> id, name |-> <<"z">>, author |-> None, trainingDate |-> None,
   supportedParameters |-> None, endpoints |-> None, contextLength |-> None,
   maxOutput |-> Some(2000), inputModalities |-> None, outputModalities |-> None]
\* the details /api/show returns for the model of a tag
OllamaRich(id) ==
  [id |-> id, details |-> [family |-> <<"q">>], capabilities |-> {"vision", "tools", "completion"},
   context_length |-> Some(8000)]
OllamaBare(id) ==
  [id |-> id, details |-> [family |-> <<"z">>], capabilities |-> {"completion"},
   context_length |-> None]

\* the source records a payload of provider p is drawn from
SyncRecords(p) ==
  CASE p = "vercel" -> {VercelRich(IdA), VercelBare(IdA), VercelBare(IdC), VercelImage(IdC)}
    [] p = "venice" -> {VeniceRich(IdA), VeniceBare(IdA), VeniceBare(IdB), VeniceRich(IdC)}
    [] p = "friendli" -> {FriendliRich(id) : id \in SyncIds(p)} \cup {FriendliBare(id) : id \in SyncIds(p)}
    [] p = "jiekou" -> {JiekouRich(id) : id \in SyncIds(p)}
    [] p = "helicone" -> {HeliconeRich(IdA), HeliconeBare(IdB), HeliconeBare(IdC)}
    [] p = "ollama" -> {OllamaRich(IdC), OllamaBare(IdQ)}
Payloads(p) == UNION {[1..k -> SyncRecords(p)] : k \in 1..MaxPayload}

\* a hand-curated record and a sparse one
DocCurated ==
  [EmptyDoc EXCEPT
    !.name = Some(<<"M">>), !.family = Some(<<"g", "p", "t">>),
    !.attachment = Some(FALSE), !.reasoning = Some(TRUE), !.tool_call = Some(TRUE),
    !.temperature = Some(TRUE), !.knowledge = Some(<<"2024-01">>),
    !.release_date = Some(1), !.last_updated = Some(1), !.open_weights = Some(FALSE),
    !.interleaved = Some(IlBool(TRUE)), !.status = Some(<<"beta">>),
    !.cost = Some([EmptyCost EXCEPT !.input = Some(0), !.output = Some(0)]),
    !.limit = Some([context |-> Some(4000), output |-> Some(1000)]),
    !.modalities = Some([input |-> Some(<<"text", "pdf">>), output |-> Some(<<"text">>)])]
DocSparse == [EmptyDoc EXCEPT !.name = Some(<<"M">>), !.family = Some(<<>>)]
\* a file the Jiekou generator wrote for the source id `name`
JiekouDoc(name) == formatTomlJiekou(processModel(JiekouRich(name), 5))
FileContents(p) ==
  IF p = "jiekou"
  THEN {NoFile, Garbage, TomlFile(JiekouDoc(JkKeep)), TomlFile(JiekouDoc(JkSkipFlat))}
  ELSE IF p = "helicone" THEN {NoFile, TomlFile(DocCurated)}
  ELSE {NoFile, Garbage, TomlFile(DocCurated), TomlFile(DocSparse)}
\* the file the Vercel generator wrote on day 5 when the source priced the
\* model at "0"
DocFree == formatToml("vercel", mergeModel("vercel", VercelFree(IdA), None, 5))
\* the models directory before the first run; for Vercel the file of IdA may
\* also be one written by an earlier run for a free model
Stores(p) ==
  [Files(p) -> FileContents(p)] \cup
    (IF p = "vercel"
     THEN {[f EXCEPT ![storePath(p, IdA)] = TomlFile(DocFree)] : f \in [Files(p) -> FileContents(p)]}
     ELSE {})

(***************************************************************************)
(* State of one provider's store and of the driver run working on it.      *)
(***************************************************************************)
VARIABLES
  provider,       \* which generator this behaviour runs
  store,          \* models directory: path -> file
  dirs,           \* directories under modelsDir that exist
  payload,        \* the validated API response, apiModels
  today,          \* getTodayDate() of the current run; each run is a day later
  pc,             \* "idle" between runs, "loop" inside the for loop of main
  idx,            \* position of the for loop in apiModels
  dryRun, newOnly,
  created, updated, unchanged,
  apiModelIds, existingFiles, orphaned,
  remainingFiles, deleted, skipped,   \* Jiekou: files after cleanup, counters
  report,         \* per processed record: path, classification, changes
  startStore,     \* the store when the current run started
  last,           \* summary of the latest finished run
  prev,           \* summary of the finished run before it
  runs,           \* finished runs
  sourceFiles,    \* Cloudflare: the model files of the sibling provider directories
  fnPc, fnIn, fnOut   \* a pure function under test: phase, inputs, result

syncVars ==
  <<provider, store, dirs, payload, today, pc, idx, dryRun, newOnly, created, updated,
    unchanged, apiModelIds, existingFiles, orphaned, remainingFiles, deleted, skipped,
    report, startStore, last, prev, runs>>
cfVars == <<sourceFiles>>
fnVars == <<fnPc, fnIn, fnOut>>
vars == <<syncVars, cfVars, fnVars>>

NoRun ==
  [valid |-> FALSE, dryRun |-> FALSE, newOnly |-> FALSE,
   startStore |-> <<>>, endStore |-> <<>>,
   created |-> 0, updated |-> 0, unchanged |-> 0, orphaned |-> {}, report |-> <<>>,
   deleted |-> 0, skipped |-> 0]
FnIdle == fnPc = "off" /\ fnIn = <<>> /\ fnOut = <<>>
CfIdle == sourceFiles = {}

\* the recursive scan for *.toml (Vercel, Friendli, Jiekou) or readdir of
\* modelsDir (Venice)
scanExisting(p, st) ==
  {f \in DOMAIN st : st[f].kind # "absent" /\ (p = "venice" => LastSlash(f) = 0)}
\* the directories holding the files of a store
dirsOf(st) == {dirname(f) : f \in {g \in DOMAIN st : st[g].kind # "absent"}} \ {<<>>}

SyncInit ==
  /\ provider \in FetchProviders
  /\ store \in Stores(provider)
  /\ dirs = dirsOf(store)
  /\ payload \in Payloads(provider)
  /\ today = 10
  /\ pc = "idle" /\ idx = 0
  /\ dryRun = FALSE /\ newOnly = FALSE
  /\ created = 0 /\ updated = 0 /\ unchanged = 0
  /\ apiModelIds = {} /\ existingFiles = {} /\ orphaned = {}
  /\ remainingFiles = {} /\ deleted = 0 /\ skipped = 0
  /\ report = <<>>
  /\ startStore = store
  /\ last = NoRun /\ prev = NoRun
  /\ runs = 0
  /\ CfIdle /\ FnIdle

\* main up to the for loop: flags, fetch and validation succeed, scan of modelsDir
StartRun ==
  /\ provider \in AllProviders
  /\ pc = "idle" /\ runs < MaxRuns
  /\ \E d \in BOOLEAN, n \in BOOLEAN :
       /\ n => provider = "vercel"
       /\ dryRun' = d /\ newOnly' = n
  /\ today' = today + 1
  /\ existingFiles' = scanExisting(provider, store)
  /\ apiModelIds' = {}
  /\ created' = 0 /\ updated' = 0 /\ unchanged' = 0
  /\ orphaned' = {}
  /\ report' = <<>>
  /\ startStore' = store
  /\ remainingFiles' = {} /\ deleted' = 0 /\ skipped' = 0
  /\ pc' = IF provider = "jiekou" THEN "cleanup" ELSE "loop"
  /\ idx' = 1
  /\ UNCHANGED <<provider, store, dirs, payload, last, prev, runs, cfVars, fnVars>>

\* mkdir(dirPath, { recursive: true }) then Bun.write(filePath, tomlContent)
writeFile(st, path, content) == [st EXCEPT ![path] = content]
mkdirP(ds, dir) == IF dir = <<>> THEN ds ELSE ds \cup {dir}

\* the branch the loop body takes for one record
classifyMut(existing, nOnly, changes) ==
  IF ~IsSome(existing) THEN "created"
  ELSE IF changes # <<>> THEN "updated"
  ELSE "unchanged"
classify(existing, nOnly, changes) ==
  IF ~IsSome(existing) THEN "created"
  ELSE IF nOnly THEN "new-only"
  ELSE IF changes # <<>> THEN "updated"
  ELSE "unchanged"

\* whether that branch reaches mkdir and Bun.write
writesMut(class, dry) == class \in {"created", "updated"}
writes(class, dry) == class \in {"created", "updated"} /\ ~dry

\* the orphan loop: every orphan is logged, none is touched
afterOrphanLoopMut(st, orphans) == [f \in DOMAIN st |-> IF f \in orphans THEN NoFile ELSE st[f]]
afterOrphanLoop(st, orphans) == st

\* one iteration of the for loop of main
ProcessModel ==
  /\ provider \in Providers
  /\ pc = "loop" /\ idx <= Len(payload)
  /\ LET apiModel == payload[idx]
         relativePath == storePath(provider, apiModel.id)
         existing == loadExistingModel(store[relativePath])
     IN IF provider = "vercel" /\ apiModel.type \in {"image", "video"}
        THEN UNCHANGED <<store, dirs, created, updated, unchanged, apiModelIds, report>>
        ELSE \E merged \in {mergeModel(provider, apiModel, existing, today)} :
             \E changes \in {detectChanges(provider, existing, merged)} :
             \E class \in {classify(existing, newOnly, changes)} :
             \E tomlContent \in {TomlFile(formatToml(provider, merged))} :
             /\ apiModelIds' = apiModelIds \cup {relativePath}
             /\ created' = IF class = "created" THEN created + 1 ELSE created
             /\ updated' = IF class = "updated" THEN updated + 1 ELSE updated
             /\ unchanged' = IF class \in {"new-only", "unchanged"} THEN unchanged + 1 ELSE unchanged
             /\ report' = Append(report, [path |-> relativePath, class |-> class,
                                          changes |-> changes])
             /\ IF writes(class, dryRun)
                THEN /\ store' = writeFile(store, relativePath, tomlContent)
                     /\ dirs' = IF provider = "venice" THEN dirs
                                ELSE mkdirP(dirs, dirname(relativePath))
                ELSE UNCHANGED <<store, dirs>>
  /\ idx' = idx + 1
  /\ UNCHANGED <<provider, payload, today, pc, dryRun, newOnly, existingFiles,
                 orphaned, remainingFiles, deleted, skipped, startStore, last, prev,
                 runs, cfVars, fnVars>>

\* the orphan loop and the summary line of main
FinishRun ==
  /\ provider \in Providers
  /\ pc = "loop" /\ idx > Len(payload)
  /\ orphaned' = {f \in existingFiles : f \notin apiModelIds}
  /\ store' = afterOrphanLoop(store, orphaned')
  /\ last' = [valid |-> TRUE, dryRun |-> dryRun, newOnly |-> newOnly,
              startStore |-> startStore, endStore |-> store',
              created |-> created, updated |-> updated,
              unchanged |-> unchanged, orphaned |-> orphaned', report |-> report,
              deleted |-> 0, skipped |-> 0]
  /\ prev' = last
  /\ pc' = "idle"
  /\ runs' = runs + 1
  /\ UNCHANGED <<provider, dirs, payload, today, idx, dryRun, newOnly, created,
                 updated, unchanged, apiModelIds, existingFiles, remainingFiles, deleted,
                 skipped, report, startStore, cfVars, fnVars>>

\* Jiekou: cleanupSkippedModels over the scanned files, then the rescan
CleanupSkippedModels ==
  /\ provider = "jiekou" /\ pc = "cleanup"
  /\ LET matches(f) == LET modelName == extractModelName(store[f])
                       IN TruthyStr(modelName) /\ shouldSkipModel(Get(modelName))
         toDelete == {f \in existingFiles : matches(f)}
         unlinked == [f \in DOMAIN store |-> IF f \in toDelete THEN NoFile ELSE store[f]]
         \* rmdir of the parent succeeds once no file is left in it
         emptied == {d \in {dirname(f) : f \in toDelete} : d # <<>> /\ d \notin dirsOf(unlinked)}
     IN /\ deleted' = Cardinality(toDelete)
        /\ store' = IF dryRun THEN store ELSE unlinked
        /\ dirs' = IF dryRun THEN dirs ELSE dirs \ emptied
  /\ remainingFiles' = scanExisting(provider, store')
  /\ pc' = "loop"
  /\ UNCHANGED <<provider, payload, today, idx, dryRun, newOnly, created, updated, unchanged,
                 apiModelIds, existingFiles, orphaned, skipped, report, startStore, last,
                 prev, runs, cfVars, fnVars>>

\* Jiekou: one iteration of the for loop of main
JiekouProcessModel ==
  /\ provider = "jiekou" /\ pc = "loop" /\ idx <= Len(payload)
  /\ LET apiModel == payload[idx]
         processed == processModel(apiModel, today)
         relativePath == storePath(provider, apiModel.id)
         fileExists == relativePath \in remainingFiles
         tomlContent == TomlFile(formatTomlJiekou(processed))
     IN IF shouldSkipModel(apiModel.id)
        THEN /\ skipped' = skipped + 1
             /\ UNCHANGED <<store, dirs, created, unchanged, apiModelIds, report>>
        ELSE /\ apiModelIds' = apiModelIds \cup {relativePath}
             /\ skipped' = skipped
             /\ unchanged' = IF fileExists THEN unchanged + 1 ELSE unchanged
             /\ created' = IF fileExists THEN created ELSE created + 1
             /\ report' = Append(report, [path |-> relativePath,
                                          class |-> IF fileExists THEN "unchanged" ELSE "created",
                                          changes |-> <<>>])
             /\ IF ~fileExists /\ writes("created", dryRun)
                THEN /\ store' = writeFile(store, relativePath, tomlContent)
                     /\ dirs' = mkdirP(dirs, dirname(relativePath))
                ELSE UNCHANGED <<store, dirs>>
  /\ idx' = idx + 1
  /\ UNCHANGED <<provider, payload, today, pc, dryRun, newOnly, updated, existingFiles,
                 orphaned, remainingFiles, deleted, startStore, last, prev, runs, cfVars, fnVars>>

\* Jiekou: the orphan loop and the summary line of main
JiekouFinishRun ==
  /\ provider = "jiekou" /\ pc = "loop" /\ idx > Len(payload)
  /\ orphaned' = {f \in remainingFiles : f \notin apiModelIds}
  /\ last' = [valid |-> TRUE, dryRun |-> dryRun, newOnly |-> newOnly,
              startStore |-> startStore, endStore |-> store,
              created |-> created, updated |-> updated,
              unchanged |-> unchanged, orphaned |-> orphaned', report |-> report,
              deleted |-> deleted, skipped |-> skipped]
  /\ prev' = last
  /\ pc' = "idle"
  /\ runs' = runs + 1
  /\ UNCHANGED <<provider, store, dirs, payload, today, idx, dryRun, newOnly, created,
                 updated, unchanged, apiModelIds, existingFiles, remainingFiles, deleted,
                 skipped, report, startStore, cfVars, fnVars>>

\* the store as the process leaves it when it exits at the fetch boundary:
\* process.exit(1) precedes every write and every removal
afterFailedFetchMut(p, st) ==
  IF p = "helicone" THEN [f \in DOMAIN st |-> NoFile] ELSE st
afterFailedFetch(p, st) == st

\* main when the response is not OK or safeParse fails: the process exits
FetchFails ==
  /\ provider \in FetchProviders
  /\ pc = "idle" /\ runs < MaxRuns
  /\ pc' = "failed"
  /\ startStore' = store
  /\ store' = afterFailedFetch(provider, store)
  /\ UNCHANGED <<provider, dirs, payload, today, idx, dryRun, newOnly, created, updated,
                 unchanged, apiModelIds, existingFiles, orphaned, remainingFiles, deleted,
                 skipped, report, last, prev, runs, cfVars, fnVars>>

\* Helicone main after validation: the output directory is emptied of its
\* subfolders and .toml files
HeliconeStart ==
  /\ provider = "helicone" /\ pc = "idle" /\ runs < MaxRuns
  /\ today' = today + 1
  /\ startStore' = store
  /\ store' = [f \in DOMAIN store |-> NoFile]
  /\ dirs' = {}
  /\ created' = 0 /\ report' = <<>>
  /\ pc' = "loop" /\ idx' = 1
  /\ UNCHANGED <<provider, payload, dryRun, newOnly, updated, unchanged, apiModelIds,
                 existingFiles, orphaned, remainingFiles, deleted, skipped, last, prev,
                 runs, cfVars, fnVars>>

\* one iteration of the for loop of Helicone main
HeliconeWrite ==
  /\ provider = "helicone" /\ pc = "loop" /\ idx <= Len(payload)
  /\ LET m == payload[idx]
         filePath == storePath(provider, m.id)
     IN /\ store' = writeFile(store, filePath, TomlFile(formatTomlHelicone(m, today)))
        /\ report' = Append(report, [path |-> filePath, class |-> "created", changes |-> <<>>])
  /\ created' = created + 1
  /\ idx' = idx + 1
  /\ UNCHANGED <<provider, dirs, payload, today, pc, dryRun, newOnly, updated, unchanged,
                 apiModelIds, existingFiles, orphaned, remainingFiles, deleted, skipped,
                 startStore, last, prev, runs, cfVars, fnVars>>

\* Ollama: the tags response is valid; the details of the models are next
OllamaStart ==
  /\ provider = "ollama" /\ pc = "idle" /\ runs < MaxRuns
  /\ today' = today + 1
  /\ startStore' = store
  /\ created' = 0 /\ report' = <<>>
  /\ pc' = "show" /\ idx' = 1
  /\ UNCHANGED <<provider, store, dirs, payload, dryRun, newOnly, updated, unchanged,
                 apiModelIds, existingFiles, orphaned, remainingFiles, deleted, skipped,
                 last, prev, runs, cfVars, fnVars>>

\* Ollama: one /api/show request; a response that is not OK or not valid
\* ends the process, the last valid one starts the writing loop
OllamaShow ==
  /\ provider = "ollama" /\ pc = "show" /\ idx <= Len(payload)
  /\ \E ok \in BOOLEAN :
       IF ~ok THEN pc' = "failed" /\ idx' = idx
       ELSE IF idx = Len(payload) THEN pc' = "loop" /\ idx' = 1
       ELSE pc' = pc /\ idx' = idx + 1
  /\ UNCHANGED <<provider, store, dirs, payload, today, dryRun, newOnly, created, updated,
                 unchanged, apiModelIds, existingFiles, orphaned, remainingFiles, deleted,
                 skipped, report, startStore, last, prev, runs, cfVars, fnVars>>

\* Ollama: one iteration of the writing loop
OllamaWrite ==
  /\ provider = "ollama" /\ pc = "loop" /\ idx <= Len(payload)
  /\ LET data == payload[idx]
         filePath == modelFileName(data.id)
         existingData == loadExistingModel(store[filePath])
     IN IF ollamaThrows(existingData)
        THEN pc' = "crashed" /\ UNCHANGED <<store, report, created, idx>>
        ELSE /\ store' = writeFile(store, filePath,
                            TomlFile(generateToml(data.id, ollamaModel(data.id, data, existingData, today))))
             /\ report' = Append(report, [path |-> filePath, class |-> "created", changes |-> <<>>])
             /\ created' = created + 1
             /\ idx' = idx + 1
             /\ pc' = pc
  /\ UNCHANGED <<provider, dirs, payload, today, dryRun, newOnly, updated, unchanged,
                 apiModelIds, existingFiles, orphaned, remainingFiles, deleted, skipped,
                 startStore, last, prev, runs, cfVars, fnVars>>

\* Helicone and Ollama: the summary line after the loop
RegenFinishRun ==
  /\ provider \in {"helicone", "ollama"}
  /\ pc = "loop" /\ idx > Len(payload)
  /\ last' = [NoRun EXCEPT !.valid = TRUE, !.startStore = startStore, !.endStore = store,
                           !.created = created, !.report = report]
  /\ prev' = last
  /\ pc' = "idle"
  /\ runs' = runs + 1
  /\ UNCHANGED <<provider, store, dirs, payload, today, idx, dryRun, newOnly, created,
                 updated, unchanged, apiModelIds, existingFiles, orphaned, remainingFiles,
                 deleted, skipped, report, startStore, cfVars, fnVars>>

SyncNext ==
  \/ StartRun \/ ProcessModel \/ FinishRun
  \/ CleanupSkippedModels \/ JiekouProcessModel \/ JiekouFinishRun
  \/ FetchFails
  \/ HeliconeStart \/ HeliconeWrite
  \/ OllamaStart \/ OllamaShow \/ OllamaWrite
  \/ RegenFinishRun
SpecSync == SyncInit /\ [][SyncNext]_vars

(***************************************************************************)
(* Properties of the sync drivers, checked under SpecSync.                 *)
(***************************************************************************)
\* the store paths of the records of the payload
payloadPaths == {storePath(provider, payload[i].id) : i \in 1..Len(payload)}
Present(st) == {f \in DOMAIN st : st[f].kind # "absent"}

\* C1: idempotence of the Vercel, Venice and Friendli drivers: after one real
\* run (no --dry-run, no --new-only), a second real run against the same
\* payload reports zero created and zero updated records and an empty change
\* list for every processed id.
C1_Idempotence ==
  (/\ provider \in Providers
   /\ prev.valid /\ ~prev.dryRun /\ ~prev.newOnly
   /\ last.valid /\ ~last.dryRun /\ ~last.newOnly)
  => /\ last.created = 0 /\ last.updated = 0
     /\ \A i \in 1..Len(last.report) :
          last.report[i].class = "unchanged" /\ last.report[i].changes = <<>>

\* C2: dry-run equivalence of the Vercel, Venice and Friendli drivers: a run
\* with --dry-run and a real run from the same store and the same payload
\* report the same created, updated, unchanged and orphaned counts.
C2_DryRunEquivalence ==
  (/\ provider \in Providers
   /\ prev.valid /\ last.valid
   /\ prev.dryRun /\ ~last.dryRun
   /\ prev.newOnly = last.newOnly
   /\ prev.startStore = last.startStore)
  => /\ last.created = prev.created
     /\ last.updated = prev.updated
     /\ last.unchanged = prev.unchanged
     /\ Cardinality(last.orphaned) = Cardinality(prev.orphaned)

\* C28: orphan reporting of the Vercel driver: after a run a file that was
\* persisted at its start is reported as orphaned exactly when no record of
\* the payload has its id.
C28_OrphanExactly ==
  (provider = "vercel" /\ pc = "idle" /\ last.valid) =>
    last.orphaned =
      {f \in DOMAIN last.startStore :
         /\ last.startStore[f].kind # "absent"
         /\ ~\E i \in 1..Len(payload) : storePath(provider, payload[i].id) = f}

\* the model id a Jiekou file belongs to: its path without ".toml"
idOfPath(f) == SubSeq(f, 1, Len(f) - 1)
\* C29: skip cleanup of the Jiekou driver: after a real run no persisted file
\* belongs to an id matching SKIP_MODELS, and every file present at the start
\* whose id does not match SKIP_MODELS is left as it was.
C29_SkipCleanup ==
  (provider = "jiekou" /\ pc = "idle" /\ last.valid /\ ~last.dryRun) =>
    /\ \A f \in Present(last.endStore) : ~shouldSkipModel(idOfPath(f))
    /\ \A f \in Present(last.startStore) :
         ~shouldSkipModel(idOfPath(f)) => last.endStore[f] = last.startStore[f]

\* limit.output of a file, if the file is readable and has one
outputOf(file) ==
  IF file.kind = "toml" /\ IsSome(file.doc.limit) THEN Get(file.doc.limit).output ELSE None
\* the step of Venice's for loop that processes, in a real run, a record whose
\* file is readable and has a limit.output
VeniceStickyStep ==
  /\ provider = "venice" /\ pc = "loop" /\ idx <= Len(payload) /\ idx' = idx + 1 /\ ~dryRun
  /\ IsSome(outputOf(store[storePath(provider, payload[idx].id)]))
C27_JiekouDryRunEquivalence ==
  (/\ provider = "jiekou"
   /\ prev.valid /\ last.valid
   /\ prev.dryRun /\ ~last.dryRun
   /\ prev.startStore = last.startStore)
  => /\ last.deleted = prev.deleted
     /\ last.created = prev.created
     /\ last.unchanged = prev.unchanged
     /\ last.skipped = prev.skipped
     /\ Cardinality(last.orphaned) = Cardinality(prev.orphaned)

\* the step of the for loop that processes the record at idx in a real run
\* without --new-only (a Vercel record of type image or video is skipped)
RealFullStep ==
  /\ provider \in Providers /\ pc = "loop" /\ idx <= Len(payload) /\ idx' = idx + 1
  /\ ~dryRun /\ ~newOnly
  /\ ~(provider = "vercel" /\ payload[idx].type \in {"image", "video"})
\* the existing record and the merged record of the record at idx
existingAtIdx == loadExistingModel(store[storePath(provider, payload[idx].id)])
mergedAtIdx == mergeModel(provider, payload[idx], existingAtIdx, today)

\* the source record supplies no usable pricing: no pricing object (Vercel,
\* Venice), pricing that is not per token (Friendli)
noUsablePricing(p, apiModel) ==
  CASE p = "vercel" -> apiModel.pricing = None
    [] p = "venice" -> apiModel.model_spec.pricing = None
    [] p = "friendli" -> apiModel.pricing.unit_type # "TOKEN"

\* C20: no stale cost: in a real run without --new-only, once a source
\* record that supplies no usable pricing has been processed, the record
\* persisted for its id has no cost block, whatever cost block the
\* previously persisted record had (prices of 0 included).
C20_NoStaleCost ==
  [][(RealFullStep /\ noUsablePricing(provider, payload[idx])) =>
       /\ store'[storePath(provider, payload[idx].id)].kind = "toml"
       /\ store'[storePath(provider, payload[idx].id)].doc.cost = None]_vars

\* C12: full regeneration in the Vercel, Venice and Friendli drivers: in a
\* real run without --new-only, once a source record has been processed its
\* file holds the serialisation of the record merged for it in this run,
\* last_updated being the run date, whatever detectChanges returned.
C12_FullRegeneration ==
  [][RealFullStep =>
       store'[storePath(provider, payload[idx].id)] = TomlFile(formatToml(provider, mergedAtIdx))]_vars

\* C13: fail-closed at the fetch boundary of the Vercel, Venice, Friendli,
\* Jiekou, Helicone and Ollama generators: when a response is not OK or fails
\* validation the process exits with every file as it was when the run
\* started, and while Ollama is still fetching details no file has changed.
C13_FailClosed ==
  (provider \in FetchProviders /\ pc \in {"failed", "show"}) => store = startStore
\* an Ollama run has exited at a later /api/show request, after the details
\* of an earlier model had been fetched, over a store that holds files
C13_Witness ==
  /\ provider = "ollama" /\ pc = "failed" /\ idx > 1
  /\ Present(store) # {}
  /\ last.valid

\* the step of the for loop that processes a record whose file cannot be parsed
UnreadableStep ==
  /\ provider \in Providers /\ pc = "loop" /\ idx <= Len(payload) /\ idx' = idx + 1
  /\ ~(provider = "vercel" /\ payload[idx].type \in {"image", "video"})
  /\ store[storePath(provider, payload[idx].id)].kind = "garbage"

\* C14: unreadable persisted record in the Vercel, Venice and Friendli
\* drivers: when the file of the processed id cannot be parsed,
\* loadExistingModel returns no existing record, the run goes on to the next
\* record, the id is counted and reported as created, and unless the run is
\* a dry run the file is overwritten with the serialisation of the record
\* merged from the source record alone.
C14_UnreadableRegenerated ==
  [][UnreadableStep =>
       /\ existingAtIdx = None
       /\ pc' = "loop"
       /\ created' = created + 1 /\ updated' = updated /\ unchanged' = unchanged
       /\ report'[Len(report')].class = "created"
       /\ store'[storePath(provider, payload[idx].id)] =
            IF dryRun THEN store[storePath(provider, payload[idx].id)]
            ELSE TomlFile(formatToml(provider, mergeModel(provider, payload[idx], None, today)))]_vars
\* a real run has ended that found an unparseable file for a processed id,
\* reported the id as created and left a parseable file in its place
C14_Witness ==
  /\ provider \in Providers /\ pc = "idle"
  /\ last.valid /\ ~last.dryRun
  /\ \E i \in 1..Len(last.report) :
       /\ last.startStore[last.report[i].path].kind = "garbage"
       /\ last.report[i].class = "created"
       /\ last.endStore[last.report[i].path].kind = "toml"

\* C15: one persisted record per source id, in every generator: two records
\* a run has processed that share their store file carry the same id, so no
\* record is read as the existing record of, or overwritten by, another id.
C15_OneFilePerId ==
  (provider \in FetchProviders /\ pc = "loop") =>
    \A i, j \in 1..(idx - 1) :
      storePath(provider, payload[i].id) = storePath(provider, payload[j].id)
        => payload[i].id = payload[j].id

\* the step of the Ollama writing loop that overwrites a readable file
OllamaOverwrite ==
  /\ provider = "ollama" /\ pc = "loop" /\ idx <= Len(payload) /\ idx' = idx + 1
  /\ store[modelFileName(payload[idx].id)].kind = "toml"
ollamaOld == store[modelFileName(payload[idx].id)].doc
ollamaNew == store'[modelFileName(payload[idx].id)].doc

\* C26 as stated: when the Ollama generator overwrites a model file, the
\* family, release_date, knowledge, status and interleaved values of the
\* existing file reappear unchanged in the regenerated file.
C26_OllamaPreservesAll ==
  [][OllamaOverwrite =>
       \A f \in {"family", "release_date", "knowledge", "status", "interleaved"} :
         ollamaNew[f] = ollamaOld[f]]_vars
\* C26 amended: the family, release_date and knowledge of the existing file
\* reappear unchanged (a string that is empty counts as no release_date and
\* no knowledge) and so does limit.output; status and interleaved are not
\* carried over: the regenerated file has neither.
C26_OllamaPreserves ==
  [][OllamaOverwrite =>
       /\ IsSome(ollamaOld.family) => ollamaNew.family = ollamaOld.family
       /\ \A f \in {"release_date", "knowledge"} :
            ollamaNew[f] = IF f = "knowledge" /\ ~TruthyStr(ollamaOld[f]) THEN None ELSE ollamaOld[f]
       /\ Get(ollamaNew.limit).output = Get(ollamaOld.limit).output
       /\ ollamaNew.status = None /\ ollamaNew.interleaved = None]_vars
\* the curated file of the first model of the payload has been overwritten:
\* its family differs from the one the source reports and is still there,
\* its status is gone
C26_Witness ==
  /\ provider = "ollama" /\ pc = "loop" /\ idx > 1
  /\ startStore[modelFileName(payload[1].id)] = TomlFile(DocCurated)
  /\ payload[1].details.family # Get(DocCurated.family)
  /\ store[modelFileName(payload[1].id)].doc.family = DocCurated.family
  /\ store[modelFileName(payload[1].id)].doc.status = None
  /\ store[modelFileName(payload[1].id)].doc.last_updated = Some(today)

\* C3: with --dry-run the Vercel, Venice, Friendli and Jiekou drivers never
\* mutate the store: at every step of the run and at its end, every file is
\* as it was when the run started and the directories are those of the start.
C3_DryRunFrame ==
  dryRun => store = startStore /\ dirs = dirsOf(startStore)
\* a Jiekou dry run has finished that would have deleted a file (and with it
\* emptied a directory or not) and would have created one
C3_Witness ==
  /\ provider = "jiekou" /\ pc = "idle" /\ dryRun
  /\ last.valid /\ last.deleted > 0 /\ last.created > 0

\* C4 as stated: in a Vercel run with --new-only and without --dry-run, every
\* file that exists when the run starts has the same content when it ends.
C4_NewOnlyEveryFile ==
  (provider = "vercel" /\ newOnly /\ ~dryRun)
  => \A f \in Present(startStore) : store[f] = startStore[f]
\* C4 amended: in a Vercel run with --new-only and without --dry-run, every
\* file that exists when the run starts and can be parsed has the same content
\* when it ends; only ids whose file was missing or could not be parsed get a
\* file written.
C4_NewOnlyParsedFiles ==
  (provider = "vercel" /\ newOnly /\ ~dryRun)
  => \A f \in DOMAIN store :
       /\ startStore[f].kind = "toml" => store[f] = startStore[f]
       /\ store[f] # startStore[f] =>
            /\ startStore[f].kind \in {"absent", "garbage"}
            /\ f \in apiModelIds
\* a --new-only run has finished that left alone a parsed file the source
\* disagrees with, and created another
C4_Witness ==
  /\ provider = "vercel" /\ pc = "idle" /\ newOnly /\ ~dryRun /\ last.valid
  /\ last.created > 0
  /\ \E i \in 1..Len(last.report) :
       /\ last.report[i].class = "new-only" /\ last.report[i].changes # <<>>
       /\ store[last.report[i].path] = startStore[last.report[i].path]

\* C5: warn-only orphans of the Vercel, Venice and Friendli drivers: no file
\* present at the start of a run is ever absent later, and after a run a file
\* whose id has no record in the payload has its content unchanged and is in
\* the reported orphans.
C5_WarnOnlyOrphans ==
  provider \in Providers =>
    /\ \A f \in Present(startStore) : f \in Present(store)
    /\ (pc = "idle" /\ last.valid) =>
         \A f \in Present(last.startStore) \ payloadPaths :
           store[f] = last.startStore[f] /\ f \in last.orphaned
\* a real run has finished and reported an orphan
C5_Witness ==
  /\ provider \in Providers /\ pc = "idle" /\ last.valid /\ ~last.dryRun
  /\ last.orphaned # {} /\ last.created > 0

(***************************************************************************)
(* mergeModel as a function: SpecMerge applies the mergeModel of one       *)
(* generator to one source record and one existing record.                 *)
(***************************************************************************)
\* the driver variables while no driver runs
SyncIdle ==
  /\ provider = "none" /\ store = <<>> /\ dirs = {} /\ payload = <<>> /\ today = 0
  /\ pc = "off" /\ idx = 0 /\ dryRun = FALSE /\ newOnly = FALSE
  /\ created = 0 /\ updated = 0 /\ unchanged = 0
  /\ apiModelIds = {} /\ existingFiles = {} /\ orphaned = {}
  /\ remainingFiles = {} /\ deleted = 0 /\ skipped = 0
  /\ report = <<>> /\ startStore = <<>> /\ last = NoRun /\ prev = NoRun /\ runs = 0

\* existing records: the sparse one, the curated one without name and
\* family or with structured_output set, and the curated one with each
\* preserved field absent, empty or set, and limit.output absent, below, at
\* or above what the sources give
ExistingKnowledge == {None, Some(<<>>), Some(<<"2024-01">>)}
ExistingStatus == {None, Some(<<>>), Some(<<"beta">>)}
ExistingInterleaved ==
  {None, Some(IlBool(TRUE)), Some(IlBool(FALSE)), Some(IlObj(<<"reasoning_content">>))}
ExistingOutput == {None, Some(1000), Some(2000), Some(4000), Some(9000)}
\* existing input prices at, within, on and beyond the tolerance around the
\* 2 * EPSILON the rich Vercel record gives, and existing limits of 0
ExistingInputPrice ==
  {2 * EPSILON, 2 * EPSILON + 1, 3 * EPSILON, 3 * EPSILON + 1, EPSILON, EPSILON - 1}
ExistingLimits ==
  {[context |-> Some(0), output |-> Some(0)], [context |-> Some(8000), output |-> Some(0)],
   [context |-> Some(0), output |-> Some(4000)], [context |-> None, output |-> None]}
MergeExisting ==
  {None, Some(DocSparse), Some([DocCurated EXCEPT !.name = None, !.family = None]),
   Some([DocCurated EXCEPT !.structured_output = Some(FALSE)]),
   Some([DocCurated EXCEPT !.structured_output = Some(TRUE)])} \cup
  {Some([DocCurated EXCEPT !.knowledge = k, !.status = st, !.interleaved = il,
                           !.limit = Some([context |-> Some(4000), output |-> o])]) :
     k \in ExistingKnowledge, st \in ExistingStatus, il \in ExistingInterleaved,
     o \in ExistingOutput} \cup
  {Some([DocCurated EXCEPT !.cost = Some([EmptyCost EXCEPT !.input = Some(c),
                                                          !.output = Some(4 * EPSILON)])]) :
     c \in ExistingInputPrice} \cup
  {Some([DocCurated EXCEPT !.limit = Some(l)]) : l \in ExistingLimits}
MergeInputs ==
  {[p |-> p, apiModel |-> r, existing |-> e, todayDate |-> 11] :
     p \in Providers, r \in UNION {SyncRecords(q) : q \in Providers}, e \in MergeExisting}

\* Jiekou has no existing record to merge: processModel takes a source
\* record with or without features
JiekouPlain(id) == [JiekouRich(id) EXCEPT !.features = None, !.input_modalities = None]
ProcessInputs ==
  {[p |-> "jiekou", apiModel |-> r, existing |-> None, todayDate |-> 11] :
     r \in {JiekouRich(JkKeep), JiekouPlain(JkKeep), JiekouPlain(JkSkipFlat)}}

MergeInit ==
  /\ SyncIdle /\ CfIdle
  /\ \/ /\ fnPc = "mergeModel"
        /\ fnIn \in {i \in MergeInputs : i.apiModel \in SyncRecords(i.p)}
     \/ /\ fnPc = "processModel"
        /\ fnIn \in ProcessInputs
  /\ fnOut = <<>>

MergeApply ==
  /\ fnPc = "mergeModel"
  /\ fnOut' = mergeModel(fnIn.p, fnIn.apiModel, fnIn.existing, fnIn.todayDate)
  /\ fnPc' = "merged"
  /\ UNCHANGED <<syncVars, cfVars, fnIn>>

\* Jiekou: processModel of one source record
ProcessApply ==
  /\ fnPc = "processModel"
  /\ fnOut' = processModel(fnIn.apiModel, fnIn.todayDate)
  /\ fnPc' = "processed"
  /\ UNCHANGED <<syncVars, cfVars, fnIn>>

\* detectChanges of the existing record and the record just merged
DetectApply ==
  /\ fnPc = "merged"
  /\ fnOut' = [merged |-> fnOut, changes |-> detectChanges(fnIn.p, fnIn.existing, fnOut)]
  /\ fnPc' = "detected"
  /\ UNCHANGED <<syncVars, cfVars, fnIn>>

MergeNext == MergeApply \/ ProcessApply \/ DetectApply
SpecMerge == MergeInit /\ [][MergeNext]_vars

\* C7: preservation in mergeModel of the Vercel, Venice and Friendli
\* generators: when the existing record has knowledge, status or interleaved
\* set (for the two strings: present and not empty, as the schema requires of
\* them), the merged record carries exactly that value whatever the source
\* record holds; when the existing record lacks the field, or there is no
\* existing record, the merged record omits it.
C7_Preservation ==
  fnPc = "merged" =>
    /\ \A f \in {"knowledge", "status"} :
         /\ TruthyStr(Ex(fnIn.existing, f)) => fnOut[f] = Ex(fnIn.existing, f)
         /\ ~IsSome(Ex(fnIn.existing, f)) => fnOut[f] = None
    /\ fnOut.interleaved = Ex(fnIn.existing, "interleaved")
\* the Vercel mergeModel has merged a source record with an existing record
\* that holds all three fields
C7_Witness ==
  /\ fnPc = "merged" /\ fnIn.p = "vercel"
  /\ Ex(fnIn.existing, "knowledge") = Some(<<"2024-01">>)
  /\ Ex(fnIn.existing, "status") = Some(<<"beta">>)
  /\ Ex(fnIn.existing, "interleaved") = Some(IlObj(<<"reasoning_content">>))
  /\ fnOut.knowledge = Some(<<"2024-01">>) /\ fnOut.status = Some(<<"beta">>)
  /\ fnOut.interleaved = Some(IlObj(<<"reasoning_content">>))

\* the output limit freshly computed from a source record
computedOutput(p, apiModel) ==
  CASE p = "vercel" -> apiModel.max_tokens
    [] p = "venice" -> apiModel.model_spec.availableContextTokens \div 4
    [] p = "friendli" -> apiModel.max_completion_tokens
\* merged.limit.output is the smaller existing value if there is one, else
\* the computed value
StickyOutput(in, out) ==
  LET existingOutput == Ex2(in.existing, "limit", "output")
      computed == computedOutput(in.p, in.apiModel)
  IN Get(out.limit).output =
       IF IsSome(existingOutput) /\ Get(existingOutput) < computed
       THEN existingOutput ELSE Some(computed)

\* C8 as stated: conservative-limit stickiness in the mergeModel of Vercel,
\* Venice and Friendli: a smaller existing limit.output is kept, otherwise
\* the computed value is used.
C8_StickyEveryGenerator ==
  fnPc = "merged" => StickyOutput(fnIn, fnOut)
\* C8 amended: conservative-limit stickiness in the mergeModel of Venice: if
\* existing.limit.output is smaller than floor(context / 4), the merged
\* limit.output is the existing value; otherwise it is floor(context / 4).
C8_StickyVenice ==
  (fnPc = "merged" /\ fnIn.p = "venice") => StickyOutput(fnIn, fnOut)
\* Venice's mergeModel has kept an existing limit of 1000 against a computed
\* one of 2000
C8_Witness ==
  /\ fnPc = "merged" /\ fnIn.p = "venice"
  /\ Ex2(fnIn.existing, "limit", "output") = Some(1000)
  /\ computedOutput("venice", fnIn.apiModel) = 2000
  /\ Get(fnOut.limit).output = Some(1000)

\* the name a source record provides: every source schema requires one
sourceName(p, apiModel) ==
  CASE p = "vercel" -> Some(apiModel.name)
    [] p = "venice" -> Some(apiModel.model_spec.name)
    [] p = "friendli" -> Some(extractModelNameFriendli(apiModel.name))

\* C17 as stated: name provenance in the mergeModel of Vercel, Venice and
\* Friendli: the merged name is the name of the source record whenever the
\* source provides one.
C17_SourceNameWins ==
  fnPc = "merged" => fnOut.name = sourceName(fnIn.p, fnIn.apiModel)
\* C17 amended: in the mergeModel of Venice and Friendli the merged name is
\* the name of the source record; in the mergeModel of Vercel it is the name
\* of the existing record when that record has one, and the name of the
\* source record only otherwise.
C17_NameProvenance ==
  fnPc = "merged" =>
    fnOut.name = IF fnIn.p = "vercel" /\ IsSome(Ex(fnIn.existing, "name"))
                 THEN Ex(fnIn.existing, "name")
                 ELSE sourceName(fnIn.p, fnIn.apiModel)
\* Vercel's mergeModel has kept the name of the existing record against a
\* different name of the source record
C17_Witness ==
  /\ fnPc = "merged" /\ fnIn.p = "vercel"
  /\ Ex(fnIn.existing, "name") = Some(<<"M">>)
  /\ fnIn.apiModel.name = <<"G">>
  /\ fnOut.name = Some(<<"M">>)

\* C18: family provenance in the mergeModel of Vercel, Venice and Friendli:
\* when the existing record has a family value, the merged family is that
\* pinned value; an inferred family is used only when the existing record
\* has none.
C18_PinnedFamilyWins ==
  (fnPc = "merged" /\ TruthyStr(Ex(fnIn.existing, "family"))) =>
    fnOut.family = Ex(fnIn.existing, "family")

\* whether the source record reports the structured-output capability
sourceStructured(p, apiModel) ==
  CASE p = "venice" -> apiModel.model_spec.capabilities.supportsResponseSchema = Some(TRUE)
    [] p = "friendli" -> apiModel.functionality.structured_output
    [] p = "jiekou" -> InArr(OrDefault(apiModel.features, <<>>), "structured-outputs")
    [] p = "vercel" -> FALSE
\* the record as serialised by the generator that produced it
serialised(p, model) == IF p = "jiekou" THEN formatTomlJiekou(model) ELSE formatToml(p, model)

\* C19 as stated: no record produced by the mergeModel of Vercel, Venice or
\* Friendli or by processModel and formatToml of Jiekou carries
\* structured_output = false: the field is true or omitted.
C19_NeverFalse ==
  fnPc \in {"merged", "processed"} =>
    /\ fnOut.structured_output # Some(FALSE)
    /\ serialised(fnIn.p, fnOut).structured_output # Some(FALSE)
\* C19 amended: in the mergeModel of Venice and Friendli structured_output
\* is true when the source reports the capability and omitted otherwise; in
\* the mergeModel of Vercel it is the value of the existing record, true or
\* false, and omitted when that record has none; processModel of Jiekou
\* always sets it, to whether the source lists the feature; formatToml
\* writes the field exactly as the record carries it.
C19_StructuredOutput ==
  fnPc \in {"merged", "processed"} =>
    /\ fnOut.structured_output =
         CASE fnIn.p \in {"venice", "friendli"} ->
                IF sourceStructured(fnIn.p, fnIn.apiModel) THEN Some(TRUE) ELSE None
           [] fnIn.p = "vercel" -> Ex(fnIn.existing, "structured_output")
           [] fnIn.p = "jiekou" -> Some(sourceStructured(fnIn.p, fnIn.apiModel))
    /\ serialised(fnIn.p, fnOut).structured_output = fnOut.structured_output
\* Friendli's mergeModel has omitted the field for a source record without
\* the capability although the existing record carries it
C19_Witness ==
  /\ fnPc = "merged" /\ fnIn.p = "friendli"
  /\ ~fnIn.apiModel.functionality.structured_output
  /\ Ex(fnIn.existing, "structured_output") = Some(FALSE)
  /\ fnOut.structured_output = None

\* the change list names the field
Reported(field) == \E i \in 1..Len(fnOut.changes) : fnOut.changes[i] = field
\* the old and the new value detectChanges of Vercel compares for a field
OldOf(field) ==
  CASE field = "cost.input" -> Ex2(fnIn.existing, "cost", "input")
    [] field = "cost.output" -> Ex2(fnIn.existing, "cost", "output")
    [] field = "cost.cache_read" -> Ex2(fnIn.existing, "cost", "cache_read")
    [] field = "cost.cache_write" -> Ex2(fnIn.existing, "cost", "cache_write")
    [] field = "limit.context" -> Ex2(fnIn.existing, "limit", "context")
    [] field = "limit.output" -> Ex2(fnIn.existing, "limit", "output")
    [] field = "modalities.input" -> Ex2(fnIn.existing, "modalities", "input")
    [] OTHER -> Ex(fnIn.existing, field)
NewOf(field) ==
  CASE field = "cost.input" -> Ex2(Some(fnOut.merged), "cost", "input")
    [] field = "cost.output" -> Ex2(Some(fnOut.merged), "cost", "output")
    [] field = "cost.cache_read" -> Ex2(Some(fnOut.merged), "cost", "cache_read")
    [] field = "cost.cache_write" -> Ex2(Some(fnOut.merged), "cost", "cache_write")
    [] field = "limit.context" -> Ex2(Some(fnOut.merged), "limit", "context")
    [] field = "limit.output" -> Ex2(Some(fnOut.merged), "limit", "output")
    [] field = "modalities.input" -> Ex2(Some(fnOut.merged), "modalities", "input")
    [] OTHER -> fnOut.merged[field]
CostFields == {"cost.input", "cost.output", "cost.cache_read", "cost.cache_write"}
ExactFields ==
  {"name", "family", "attachment", "reasoning", "tool_call", "structured_output",
   "open_weights", "release_date", "limit.context", "limit.output", "modalities.input"}
VercelDetected == fnPc = "detected" /\ fnIn.p = "vercel" /\ IsSome(fnIn.existing)

\* C21: detectChanges of Vercel compares cost fields with tolerance and the
\* other fields exactly: two present cost values produce a change entry
\* exactly when they differ by more than 0.001; a non-cost compared field
\* whose old and new values differ produces a change entry, except a limit
\* field whose old or new value is 0.
C21_ToleranceOnCostOnly ==
  VercelDetected =>
    /\ \A f \in CostFields :
         (IsSome(OldOf(f)) /\ IsSome(NewOf(f))) =>
           (Reported(f) <=> Abs(Get(OldOf(f)) - Get(NewOf(f))) > EPSILON)
    /\ \A f \in ExactFields :
         (OldOf(f) # NewOf(f) /\ ~(f \in SkipZeroFields /\ (OldOf(f) = Some(0) \/ NewOf(f) = Some(0))))
           => Reported(f)
\* an input price exactly 0.001 above the merged one is not reported while
\* the differing limit.context is
C21_Witness ==
  /\ VercelDetected
  /\ IsSome(NewOf("cost.input")) /\ OldOf("cost.input") = Some(Get(NewOf("cost.input")) + EPSILON)
  /\ ~Reported("cost.input")
  /\ OldOf("limit.context") # NewOf("limit.context") /\ Reported("limit.context")

\* C22: zero limits in the Vercel generator: when the source reports 0 for
\* context_window (max_tokens) and the existing record has a positive
\* limit.context (limit.output), the merged record keeps the existing value
\* and detectChanges reports no change for the field; a change between two
\* different positive values is reported.
C22_ZeroLimitKept ==
  VercelDetected =>
    /\ (fnIn.apiModel.context_window = 0 /\ IsSome(OldOf("limit.context")) /\ Get(OldOf("limit.context")) > 0)
         => (NewOf("limit.context") = OldOf("limit.context") /\ ~Reported("limit.context"))
    /\ (fnIn.apiModel.max_tokens = 0 /\ IsSome(OldOf("limit.output")) /\ Get(OldOf("limit.output")) > 0)
         => (NewOf("limit.output") = OldOf("limit.output") /\ ~Reported("limit.output"))
    /\ \A f \in SkipZeroFields :
         (IsSome(OldOf(f)) /\ IsSome(NewOf(f)) /\ Get(OldOf(f)) > 0 /\ Get(NewOf(f)) > 0
            /\ OldOf(f) # NewOf(f)) => Reported(f)
\* the source reported 0 for both limits, the existing record had positive
\* ones and they were kept without a change entry
C22_Witness ==
  /\ VercelDetected
  /\ fnIn.apiModel.context_window = 0 /\ fnIn.apiModel.max_tokens = 0
  /\ OldOf("limit.context") = Some(4000) /\ NewOf("limit.context") = Some(4000)
  /\ OldOf("limit.output") = Some(1000) /\ NewOf("limit.output") = Some(1000)
  /\ ~Reported("limit.context") /\ ~Reported("limit.output")

(***************************************************************************)
(* Vercel's inferFamily as a function: SpecFamily applies it to an id and  *)
(* a display name.                                                         *)
(***************************************************************************)
ClaudeOpusId == <<"c","l","a","u","d","e","-","o","p","u","s","-","4","-","6">>
ClaudeOpusName == <<"C","l","a","u","d","e"," ","O","p","u","s"," ","4",".","6">>
FamilyExamples ==
  { [id |-> ClaudeOpusId, name |-> ClaudeOpusName],
    [id |-> <<"g","l","m","-","g","p","t">>, name |-> <<>>],
    [id |-> <<"x">>, name |-> <<"g","l","p","m","t">>],
    [id |-> <<"x">>, name |-> ClaudeOpusName] }
FamilyInputs ==
  {[id |-> i, name |-> n] : i \in Strs({"g", "p", "t", "o"}, MaxIdLen) \ {<<>>},
                            n \in Strs({"Y", "l", "i"}, MaxNameLen)}
    \cup FamilyExamples

FamilyInit ==
  /\ SyncIdle /\ CfIdle
  /\ fnPc = "inferFamily"
  /\ fnIn \in FamilyInputs
  /\ fnOut = <<>>

FamilyApply ==
  /\ fnPc = "inferFamily"
  /\ fnOut' = inferFamilyVercel(fnIn.id, fnIn.name)
  /\ fnPc' = "inferred"
  /\ UNCHANGED <<syncVars, cfVars, fnIn>>

FamilyNext == FamilyApply
SpecFamily == FamilyInit /\ [][FamilyNext]_vars

\* the candidates, longest first, equal lengths in list order
ListPos(f) == CHOOSE i \in 1..Len(ModelFamilyValues) : ModelFamilyValues[i] = f
CandidatesOrdered ==
  /\ Len(sortedFamilies) = Len(ModelFamilyValues)
  /\ \A i \in 1..Len(ModelFamilyValues) : InArr(sortedFamilies, ModelFamilyValues[i])
  /\ \A i, j \in 1..Len(sortedFamilies) :
       i < j => \/ Len(sortedFamilies[i]) > Len(sortedFamilies[j])
                \/ /\ Len(sortedFamilies[i]) = Len(sortedFamilies[j])
                   /\ ListPos(sortedFamilies[i]) < ListPos(sortedFamilies[j])
\* f occurs in t as a block, letters compared without case
OccursIn(t, f) ==
  \E k \in 0..(Len(t) - Len(f)) : \A m \in 1..Len(f) : LowerAtom(t[k + m]) = LowerAtom(f[m])
\* the letters of f occur in t in order, compared without case
RECURSIVE SubsequenceOf(_, _)
SubsequenceOf(t, f) ==
  IF f = <<>> THEN TRUE
  ELSE IF t = <<>> THEN FALSE
  ELSE IF LowerAtom(Head(t)) = LowerAtom(Head(f)) THEN SubsequenceOf(Tail(t), Tail(f))
  ELSE SubsequenceOf(Tail(t), f)
\* whether candidate i matches at tier k of the four tiers
TierMatch(k, i, id, name) ==
  CASE k = 1 -> OccursIn(id, sortedFamilies[i])
    [] k = 2 -> OccursIn(name, sortedFamilies[i])
    [] k = 3 -> SubsequenceOf(id, sortedFamilies[i])
    [] k = 4 -> SubsequenceOf(name, sortedFamilies[i])
\* the first candidate of the first tier at which any candidate matches
TieredFirst(id, name) ==
  LET hits == {<<k, i>> \in (1..4) \X (1..Len(sortedFamilies)) : TierMatch(k, i, id, name)}
  IN IF hits = {} THEN None
     ELSE LET h == CHOOSE x \in hits :
                     \A y \in hits : x[1] < y[1] \/ (x[1] = y[1] /\ x[2] <= y[2])
          IN Some(sortedFamilies[h[2]])

\* C10: Vercel inferFamily(id, name), with the candidates ordered by
\* descending length (equal lengths in list order), returns the first
\* candidate that is a substring of id; if none, the first that is a substring
\* of name; if none, the first that is a subsequence of id; if none, the first
\* that is a subsequence of name; and no family if nothing matches.  Every
\* candidate is tried at a tier before any is tried at the next; the id
\* claude-opus-4-6 yields claude-opus.
C10_TieredInference ==
  /\ CandidatesOrdered
  /\ fnPc = "inferred" =>
       /\ fnOut = TieredFirst(fnIn.id, fnIn.name)
       /\ fnIn.id = ClaudeOpusId => fnOut = Some(<<"c","l","a","u","d","e","-","o","p","u","s">>)
\* inferFamily has answered from the last tier: the family is a subsequence
\* of the name only
C10_Witness ==
  /\ fnPc = "inferred"
  /\ fnIn.id = <<"g", "p">> /\ fnIn.name = <<"Y", "l", "i">>
  /\ fnOut = Some(<<"y", "i">>)

(***************************************************************************)
(* Cloudflare AI Gateway scripts: utils.sh.  A model id is a sequence of   *)
(* word atoms and the characters "/", "." and "-"; a regular expression of *)
(* WELL_KNOWN_MODELS is the sequence of the sets of atoms it admits at     *)
(* each position.                                                          *)
(***************************************************************************)
INCLUDE_ALL_PROVIDERS == << <<"workers-ai">> >>
SKIP_NAMESPACES == << <<"replicate", "/", "replicate-internal">> >>
SKIP_MODELS == << <<"aura-1">>, <<"whisper">> >>
CROSS_REFERENCE_PROVIDERS == << <<"openai">>, <<"anthropic">> >>
\* the bracket expression [\.-]: a backslash, a dot or a hyphen
DotOrHyphen == {"\\", ".", "-"}
\* excerpt of WELL_KNOWN_MODELS; every pattern of the list ends with $
WELL_KNOWN_MODELS ==
  << <<{"openai"}, {"/"}, {"gpt-5"}, DotOrHyphen, {"2"}>>,
     <<{"openai"}, {"/"}, {"gpt-5"}, DotOrHyphen, {"1"}>>,
     <<{"openai"}, {"/"}, {"gpt-4o"}>>,
     <<{"anthropic"}, {"/"}, {"claude-opus-4-6"}>> >>

\* echo "${model_id}" | grep -qE "^${pattern}" for a pattern ending with $
grepMatches(model_id, pattern) ==
  /\ Len(model_id) = Len(pattern)
  /\ \A i \in 1..Len(pattern) : model_id[i] \in pattern[i]

\* position of the first "/" of s, Len(s) + 1 if there is none
FirstSlash(s) ==
  IF InArr(s, "/")
  THEN CHOOSE i \in 1..Len(s) : s[i] = "/" /\ \A j \in 1..(i - 1) : s[j] # "/"
  ELSE Len(s) + 1
\* cut -d'/' -f1 and cut -d'/' -f2- (the whole line when it holds no "/")
cutField1(s) == SubSeq(s, 1, FirstSlash(s) - 1)
cutField2on(s) == IF InArr(s, "/") THEN SubSeq(s, FirstSlash(s) + 1, Len(s)) ELSE s

\* the workers-ai sub-rule of the include-all branch
includeAllAccepts(providerName, model_id) ==
  ~(providerName = <<"workers-ai">> /\ ~startsWith(model_id, <<"workers-ai", "/", "@cf", "/">>))

should_include_modelMut(model_id) ==
  LET providerName == cutField1(model_id)
  IN IF \E i \in 1..Len(INCLUDE_ALL_PROVIDERS) : providerName = INCLUDE_ALL_PROVIDERS[i]
     THEN includeAllAccepts(providerName, model_id)
     ELSE IF \E i \in 1..Len(SKIP_MODELS) : includes(model_id, SKIP_MODELS[i]) THEN FALSE
     ELSE IF \E i \in 1..Len(SKIP_NAMESPACES) : startsWith(model_id, SKIP_NAMESPACES[i] \o <<"/">>)
     THEN FALSE
     ELSE \E i \in 1..Len(WELL_KNOWN_MODELS) : grepMatches(model_id, WELL_KNOWN_MODELS[i])
\* TRUE for return 0 (include), FALSE for return 1 (exclude)
should_include_model(model_id) ==
  LET providerName == cutField1(model_id)
  IN IF \E i \in 1..Len(SKIP_MODELS) : includes(model_id, SKIP_MODELS[i]) THEN FALSE
     ELSE IF \E i \in 1..Len(SKIP_NAMESPACES) : startsWith(model_id, SKIP_NAMESPACES[i] \o <<"/">>)
     THEN FALSE
     ELSE IF \E i \in 1..Len(INCLUDE_ALL_PROVIDERS) : providerName = INCLUDE_ALL_PROVIDERS[i]
     THEN includeAllAccepts(providerName, model_id)
     ELSE \E i \in 1..Len(WELL_KNOWN_MODELS) : grepMatches(model_id, WELL_KNOWN_MODELS[i])

\* sed 's/\./-/g'
dotsToHyphens(s) == [i \in 1..Len(s) |-> IF s[i] = "." THEN "-" ELSE s[i]]
\* the case statement of get_mapped_name (the OpenAI entries of the excerpt)
get_mapped_name(model_name) ==
  LET normalized_name == dotsToHyphens(model_name)
  IN CASE normalized_name = <<"gpt-5", "-", "1">> -> <<"gpt-5", ".", "1">>
       [] normalized_name = <<"gpt-5", "-", "2">> -> <<"gpt-5", ".", "2">>
       [] OTHER -> normalized_name

\* find_source_file without the mapped-name lookup: the original name only
find_source_fileMut(providerName, model_name, files) ==
  LET is_cross_ref == \E i \in 1..Len(CROSS_REFERENCE_PROVIDERS) :
                        providerName = CROSS_REFERENCE_PROVIDERS[i]
  IN IF ~is_cross_ref THEN None
     ELSE IF <<providerName, model_name>> \in files THEN Some(<<providerName, model_name>>)
     ELSE None
\* the source file found for a model, as <<providerName, file name>>, if any;
\* files is the set of model files of the sibling providerName directories
find_source_file(providerName, model_name, files) ==
  LET is_cross_ref == \E i \in 1..Len(CROSS_REFERENCE_PROVIDERS) :
                        providerName = CROSS_REFERENCE_PROVIDERS[i]
      mapped_name == get_mapped_name(model_name)
  IN IF ~is_cross_ref THEN None
     ELSE IF <<providerName, mapped_name>> \in files THEN Some(<<providerName, mapped_name>>)
     ELSE IF mapped_name # model_name /\ <<providerName, model_name>> \in files
     THEN Some(<<providerName, model_name>>)
     ELSE None

(***************************************************************************)
(* should_include_model as a function: SpecFilter applies it to an id.     *)
(***************************************************************************)
FilterAtoms ==
  {"/", "workers-ai", "@cf", "openai", "gpt-5", ".", "2", "whisper", "replicate",
   "replicate-internal"}
FilterInputs == Strs(FilterAtoms, MaxFilterLen)

FilterInit ==
  /\ SyncIdle /\ CfIdle
  /\ fnPc = "should_include_model"
  /\ fnIn \in FilterInputs
  /\ fnOut = <<>>

FilterApply ==
  /\ fnPc = "should_include_model"
  /\ fnOut' = should_include_model(fnIn)
  /\ fnPc' = "filtered"
  /\ UNCHANGED <<syncVars, cfVars, fnIn>>

FilterNext == FilterApply
SpecFilter == FilterInit /\ [][FilterNext]_vars

\* the rules of the first-match-wins classification, each on its own
HitsSkipModel(id) ==
  \E i \in 1..Len(SKIP_MODELS) : \E k \in 0..(Len(id) - Len(SKIP_MODELS[i])) :
    \A m \in 1..Len(SKIP_MODELS[i]) : id[k + m] = SKIP_MODELS[i][m]
UnderSkippedNamespace(id) ==
  \E i \in 1..Len(SKIP_NAMESPACES) :
    LET ns == SKIP_NAMESPACES[i]
    IN Len(id) > Len(ns) /\ id[Len(ns) + 1] = "/" /\ \A m \in 1..Len(ns) : id[m] = ns[m]
FirstSegment(id) ==
  IF \E k \in 1..Len(id) : id[k] = "/" /\ \A j \in 1..(k - 1) : id[j] # "/"
  THEN LET k == CHOOSE k \in 1..Len(id) : id[k] = "/" /\ \A j \in 1..(k - 1) : id[j] # "/"
       IN [m \in 1..(k - 1) |-> id[m]]
  ELSE id
InIncludeAll(id) == \E i \in 1..Len(INCLUDE_ALL_PROVIDERS) : FirstSegment(id) = INCLUDE_ALL_PROVIDERS[i]
SubRuleHolds(id) ==
  FirstSegment(id) = <<"workers-ai">> =>
    (Len(id) >= 4 /\ id[1] = "workers-ai" /\ id[2] = "/" /\ id[3] = "@cf" /\ id[4] = "/")
MatchesWellKnown(id) ==
  \E i \in 1..Len(WELL_KNOWN_MODELS) : grepMatches(id, WELL_KNOWN_MODELS[i])
Classification(id) ==
  IF HitsSkipModel(id) THEN "Excluded"
  ELSE IF UnderSkippedNamespace(id) THEN "Excluded"
  ELSE IF InIncludeAll(id) THEN (IF SubRuleHolds(id) THEN "Included" ELSE "Excluded")
  ELSE IF MatchesWellKnown(id) THEN "Included"
  ELSE "Excluded"

\* C9: should_include_model(id) is the first-match-wins classification:
\* Excluded if the id contains a SKIP_MODELS substring; else Excluded if it
\* lies under a SKIP_NAMESPACES prefix; else, if its first segment is in
\* INCLUDE_ALL_PROVIDERS, Included exactly when the sub-rule holds (workers-ai:
\* the id starts with workers-ai/@cf/); else Included exactly when it matches
\* a WELL_KNOWN_MODELS pattern.  No id hit by a skip rule is Included.
C9_FirstMatchWins ==
  fnPc = "filtered" =>
    /\ fnOut = (Classification(fnIn) = "Included")
    /\ (HitsSkipModel(fnIn) \/ UnderSkippedNamespace(fnIn)) => fnOut = FALSE
\* an id of the include-all provider, under the required namespace, that
\* holds a skip substring has been excluded
C9_Witness ==
  /\ fnPc = "filtered"
  /\ fnIn = <<"workers-ai", "/", "@cf", "/", "whisper">>
  /\ fnOut = FALSE

(***************************************************************************)
(* Cloudflare AI Gateway: 03_generate_model_toml.sh.  SpecCF runs the step *)
(* once over a models directory and an API response.  Ids are well formed: *)
(* none has an empty path segment.                                         *)
(***************************************************************************)
CfAccepted == <<"workers-ai", "/", "@cf", "/", "2">>
CfNoNamespace == <<"workers-ai", "/", "2">>
CfDotted == <<"openai", "/", "gpt-5", ".", "2">>
CfHyphened == <<"openai", "/", "gpt-5", "-", "2">>
CfSkipped == <<"openai", "/", "whisper">>
CfStale == <<"replicate", "/", "2">>
\* the .id values of the records of an API response: "" is an id that is
\* empty, <<"null">> what jq -r prints for a record without id
CfIds == {CfAccepted, CfNoNamespace, CfDotted, CfHyphened, CfSkipped, <<>>, <<"null">>}
CfPayloads == UNION {[1..k -> CfIds] : k \in 0..MaxPayload}
CfFiles == {id \o <<".toml">> : id \in {CfAccepted, CfNoNamespace, CfDotted, CfHyphened, CfSkipped, CfStale}}
CfOldFile == [kind |-> "toml", doc |-> [origin |-> "earlier run", of |-> <<>>]]
\* TOML_CONTENT of the generated branch, by the id it is generated for
CfGenerated(id) == [kind |-> "toml", doc |-> [origin |-> "generated", of |-> id]]
\* the model files of the sibling provider directories a run may find, as
\* <<provider, file name>>, and the content such a file holds when it exists
CfSourceDotted == <<(<<"openai">>), (<<"gpt-5", ".", "2">>)>>
CfSourceHyphened == <<(<<"openai">>), (<<"gpt-5", "-", "2">>)>>
CfSources == {CfSourceDotted, CfSourceHyphened}
CfCanonical(src) == [kind |-> "toml", doc |-> [origin |-> "canonical", of |-> src]]

\* the directories on the way from models/ to a file; <<>> is models/ itself
ancestors(path) == {SubSeq(path, 1, k - 1) : k \in {j \in 1..Len(path) : path[j] = "/"}} \cup {<<>>}
cfDirsOf(st) == UNION {ancestors(f) : f \in Present(st)}

CfInit ==
  /\ provider = "cloudflare-ai-gateway"
  /\ store \in [CfFiles -> {NoFile, CfOldFile}]
  /\ dirs = cfDirsOf(store) \cup {<<>>}
  /\ payload \in CfPayloads
  /\ sourceFiles \in {f \in [CfSources -> {NoFile} \cup {CfCanonical(src) : src \in CfSources}] :
                        \A src \in CfSources : f[src] \in {NoFile, CfCanonical(src)}}
  /\ today = 0 /\ pc = "idle" /\ idx = 0 /\ dryRun = FALSE /\ newOnly = FALSE
  /\ created = 0 /\ updated = 0 /\ unchanged = 0
  /\ apiModelIds = {} /\ existingFiles = {} /\ orphaned = {}
  /\ remainingFiles = {} /\ deleted = 0 /\ skipped = 0
  /\ report = <<>> /\ startStore = store /\ last = NoRun /\ prev = NoRun /\ runs = 0
  /\ FnIdle

\* the checks before the loop: the response holds at least one record
CfStart ==
  /\ provider = "cloudflare-ai-gateway" /\ pc = "idle"
  /\ pc' = IF Len(payload) = 0 THEN "failed" ELSE "loop"
  /\ idx' = 1
  /\ apiModelIds' = {} /\ created' = 0 /\ updated' = 0 /\ skipped' = 0 /\ deleted' = 0
  /\ startStore' = store
  /\ UNCHANGED <<provider, store, dirs, payload, today, dryRun, newOnly, unchanged,
                 existingFiles, orphaned, remainingFiles, report, last, prev, runs,
                 cfVars, fnVars>>

\* one iteration of the while loop: created counts GENERATED_COUNT, updated
\* CROSS_REF_COUNT, skipped SKIPPED_COUNT, apiModelIds is API_MODEL_FILES
CfProcessModel ==
  /\ provider = "cloudflare-ai-gateway" /\ pc = "loop" /\ idx <= Len(payload)
  /\ LET MODEL_ID == payload[idx]
         PROVIDER == cutField1(MODEL_ID)
         MODEL_NAME == cutField2on(MODEL_ID)
         MODEL_PATH == MODEL_ID \o <<".toml">>
         SOURCE_FILE == find_source_file(PROVIDER, MODEL_NAME, Present(sourceFiles))
     IN IF MODEL_ID = <<>> \/ MODEL_ID = <<"null">>
        THEN UNCHANGED <<store, dirs, apiModelIds, created, updated, skipped>>
        ELSE IF ~should_include_model(MODEL_ID)
        THEN /\ skipped' = skipped + 1
             /\ UNCHANGED <<store, dirs, apiModelIds, created, updated>>
        ELSE /\ apiModelIds' = apiModelIds \cup {MODEL_PATH}
             /\ dirs' = dirs \cup ancestors(MODEL_PATH)
             /\ skipped' = skipped
             /\ IF IsSome(SOURCE_FILE)
                THEN /\ store' = writeFile(store, MODEL_PATH, sourceFiles[Get(SOURCE_FILE)])
                     /\ updated' = updated + 1 /\ created' = created
                ELSE /\ store' = writeFile(store, MODEL_PATH, CfGenerated(MODEL_ID))
                     /\ created' = created + 1 /\ updated' = updated
  /\ idx' = idx + 1
  /\ UNCHANGED <<provider, payload, today, pc, dryRun, newOnly, unchanged, existingFiles,
                 orphaned, remainingFiles, deleted, report, startStore, last, prev, runs,
                 cfVars, fnVars>>

\* the removal loop: rm -f of every *.toml under models/ that is not a line
\* of API_MODEL_FILES
removeNotInApiMut(st, apiFiles) == st
removeNotInApi(st, apiFiles) ==
  [f \in DOMAIN st |-> IF f \in Present(st) /\ f \notin apiFiles THEN NoFile ELSE st[f]]

\* the removal loop, the deletion of empty directories and the final count,
\* whose find fails once models/ itself has been deleted as empty
CfRemoveAndCount ==
  /\ provider = "cloudflare-ai-gateway" /\ pc = "loop" /\ idx > Len(payload)
  /\ store' = removeNotInApi(store, apiModelIds)
  /\ deleted' = Cardinality(Present(store) \ Present(store'))
  /\ dirs' = cfDirsOf(store')
  /\ pc' = IF <<>> \in dirs' THEN "done" ELSE "failed"
  /\ runs' = runs + 1
  /\ UNCHANGED <<provider, payload, today, idx, dryRun, newOnly, created, updated, unchanged,
                 apiModelIds, existingFiles, orphaned, remainingFiles, skipped, report,
                 startStore, last, prev, cfVars, fnVars>>

CfNext == CfStart \/ CfProcessModel \/ CfRemoveAndCount
SpecCF == CfInit /\ [][CfNext]_vars

CanonAt(src) == IF src \in DOMAIN sourceFiles THEN sourceFiles[src] ELSE NoFile

\* C11: cross-reference in 03_generate_model_toml.sh: for every processed
\* id that should_include_model accepts and whose provider is one of
\* CROSS_REFERENCE_PROVIDERS, the file <id>.toml is a copy of the provider's
\* file of the mapped name (dots to hyphens, then the mapping table) if that
\* file exists, else a copy of the file of the original name if that exists,
\* else the record generated with the defaults; and a run that processed
\* such an id does not fail.
C11_CrossReference ==
  provider = "cloudflare-ai-gateway" =>
    \A i \in 1..(idx - 1) :
      LET id == payload[i]
          prov == cutField1(id)
          name == cutField2on(id)
          mapped == get_mapped_name(name)
      IN (/\ id \notin {<<>>, <<"null">>}
          /\ should_include_model(id)
          /\ \E k \in 1..Len(CROSS_REFERENCE_PROVIDERS) : prov = CROSS_REFERENCE_PROVIDERS[k])
         => /\ pc # "failed"
            /\ store[id \o <<".toml">>] =
                 IF CanonAt(<<prov, mapped>>) # NoFile THEN CanonAt(<<prov, mapped>>)
                 ELSE IF CanonAt(<<prov, name>>) # NoFile THEN CanonAt(<<prov, name>>)
                 ELSE CfGenerated(id)
\* a run has ended in which one OpenAI id was copied from the file of its
\* original name, the mapped name having no file, and another OpenAI id,
\* finding no file at all, was generated with the defaults
C11_Witness ==
  /\ provider = "cloudflare-ai-gateway" /\ pc = "done"
  /\ sourceFiles[CfSourceDotted] = NoFile /\ sourceFiles[CfSourceHyphened] # NoFile
  /\ \E i, j \in 1..Len(payload) :
       /\ payload[i] = CfHyphened /\ payload[j] = CfDotted
       /\ store[CfHyphened \o <<".toml">>] = sourceFiles[CfSourceHyphened]
       /\ store[CfDotted \o <<".toml">>] = CfGenerated(CfDotted)
       /\ startStore[CfDotted \o <<".toml">>] = NoFile

(***************************************************************************)
(* Letter case in the two filters: SpecCase applies should_include_model   *)
(* of Cloudflare or shouldSkipModel of Jiekou to an id and to the same id  *)
(* in lower case.                                                          *)
(***************************************************************************)
CaseAtomsCloudflare == {"/", "openai", "OpenAI", "gpt-4o", "Whisper", "workers-ai", "@cf"}
CaseAtomsJiekou == {"/", "meta-llama", "Sao10K", "gpt-4", "GPT-5", "nova-2-Lite", "o"}
CaseAtoms(filter) ==
  IF filter = "should_include_model" THEN CaseAtomsCloudflare ELSE CaseAtomsJiekou

CaseInit ==
  /\ SyncIdle /\ CfIdle
  /\ fnPc = "filter"
  /\ \E filter \in {"should_include_model", "shouldSkipModel"} :
       \E id \in Strs(CaseAtoms(filter), MaxCaseLen) : fnIn = [filter |-> filter, id |-> id]
  /\ fnOut = <<>>

CaseCloudflare ==
  /\ fnPc = "filter" /\ fnIn.filter = "should_include_model"
  /\ fnOut' = [asGiven |-> should_include_model(fnIn.id),
               lowered |-> should_include_model(toLowerCase(fnIn.id))]
  /\ fnPc' = "classified"
  /\ UNCHANGED <<syncVars, cfVars, fnIn>>

CaseJiekou ==
  /\ fnPc = "filter" /\ fnIn.filter = "shouldSkipModel"
  /\ fnOut' = [asGiven |-> shouldSkipModel(fnIn.id),
               lowered |-> shouldSkipModel(toLowerCase(fnIn.id))]
  /\ fnPc' = "classified"
  /\ UNCHANGED <<syncVars, cfVars, fnIn>>

CaseNext == CaseCloudflare \/ CaseJiekou
SpecCase == CaseInit /\ [][CaseNext]_vars

\* C23 as stated: should_include_model of Cloudflare and shouldSkipModel of
\* Jiekou each classify an id and the same id in another letter case alike.
C23_CaseInsensitive == fnPc = "classified" => fnOut.asGiven = fnOut.lowered
\* C23 amended: shouldSkipModel of Jiekou classifies an id and the same id
\* in another letter case alike (should_include_model of Cloudflare compares
\* the id as spelled).
C23_JiekouCaseInsensitive ==
  (fnPc = "classified" /\ fnIn.filter = "shouldSkipModel") => fnOut.asGiven = fnOut.lowered
\* an id with upper-case letters was skipped by Jiekou, as its lower-case
\* form is
C23_Witness ==
  /\ fnPc = "classified" /\ fnIn.filter = "shouldSkipModel"
  /\ fnIn.id # toLowerCase(fnIn.id)
  /\ fnOut.asGiven /\ fnOut.lowered

\* the three kinds of pattern of SKIP_MODELS
IsSegmentPattern(pattern) == endsWith(pattern, <<"/", "*">>)
IsPrefixPattern(pattern) == ~IsSegmentPattern(pattern) /\ endsWith(pattern, <<"*">>)
\* the first path segment of an id that has a "/"
HeadSegment(id) == SubSeq(id, 1, FirstSlash(id) - 1)
\* s holds q at position k
HoldsAt(s, q, k) == k + Len(q) - 1 <= Len(s) /\ \A m \in 1..Len(q) : s[k + m - 1] = q[m]
\* the reading of the three kinds of pattern in the claim, letters compared
\* in lower case
StatedMatch(id, pattern) ==
  LET lid == toLowerCase(id)
      lp == toLowerCase(pattern)
  IN IF IsSegmentPattern(lp)
     THEN InArr(lid, "/") /\ HeadSegment(lid) = SubSeq(lp, 1, Len(lp) - 2)
     ELSE IF IsPrefixPattern(lp)
     THEN \/ HoldsAt(lid, SubSeq(lp, 1, Len(lp) - 1), 1)
          \/ HoldsAt(LastSegment(lid), SubSeq(lp, 1, Len(lp) - 1), 1)
     ELSE lid = lp \/ LastSegment(lid) = lp
\* the reading the code gives them
CodedMatch(id, pattern) ==
  LET lid == toLowerCase(id)
      lp == toLowerCase(pattern)
  IN IF IsSegmentPattern(lp)
     THEN \E k \in 1..Len(lid) : HoldsAt(lid, SubSeq(lp, 1, Len(lp) - 2) \o <<"/">>, k)
     ELSE IF IsPrefixPattern(lp)
     THEN \/ HoldsAt(lid, SubSeq(lp, 1, Len(lp) - 1), 1)
          \/ \E k \in 1..Len(lid) : HoldsAt(lid, <<"/">> \o SubSeq(lp, 1, Len(lp) - 1), k)
     ELSE \/ lid = lp
          \/ (Len(lid) > Len(lp) /\ HoldsAt(lid, <<"/">> \o lp, Len(lid) - Len(lp)))

InferAtoms == {"g", "p", "t", "o", "y", "i"}
InferNames == {<<>>, <<"Y", "i">>}

InferInit ==
  /\ SyncIdle /\ CfIdle
  /\ fnPc = "infer"
  /\ \E gen \in {"vercel", "venice", "jiekou"}, id \in Strs(InferAtoms, MaxIdLen) \ {<<>>},
        name \in InferNames :
       fnIn = [p |-> gen, id |-> id, name |-> name]
  /\ fnOut = <<>>

InferVercel ==
  /\ fnPc = "infer" /\ fnIn.p = "vercel"
  /\ fnOut' = inferFamilyVercel(fnIn.id, fnIn.name)
  /\ fnPc' = "family"
  /\ UNCHANGED <<syncVars, cfVars, fnIn>>

InferVenice ==
  /\ fnPc = "infer" /\ fnIn.p = "venice"
  /\ fnOut' = inferFamilyVenice(fnIn.id, fnIn.name)
  /\ fnPc' = "family"
  /\ UNCHANGED <<syncVars, cfVars, fnIn>>

InferJiekou ==
  /\ fnPc = "infer" /\ fnIn.p = "jiekou"
  /\ fnOut' = inferFamilyJiekou(fnIn.id)
  /\ fnPc' = "family"
  /\ UNCHANGED <<syncVars, cfVars, fnIn>>

InferNext == InferVercel \/ InferVenice \/ InferJiekou
SpecInfer == InferInit /\ [][InferNext]_vars

\* C25: substring before subsequence in the inferFamily of Vercel, Venice
\* and Jiekou: when some candidate family is a substring of the id, the
\* family returned is a candidate that is a substring of the id.
C25_SubstringPreferred ==
  (fnPc = "family" /\ \E f \in Fams : isSubstring(fnIn.id, f)) =>
    (IsSome(fnOut) /\ isSubstring(fnIn.id, Get(fnOut)))
====
